---- MODULE Spec2Model ----
(***************************************************************************)
(* Outliner of Second-brain-notes: the node forest of NotesEditor.tsx, its *)
(* structural mutations, the visible flattening, and the debounced save    *)
(* scheduler in front of the note store (noteService).                     *)
(*                                                                         *)
(* A node is a record [id, content, children, collapsed, isChecklist,      *)
(* checked]; a forest is a sequence of nodes.  content is a sequence of    *)
(* one-character strings.  createdAt/updatedAt are left out of the record; *)
(* so is style, whose only writers (updateNodeStyle and the toggles built  *)
(* on it) no element of the editor calls, and the advisory parentId field, *)
(* which indentNode, outdentNode and addChildNode write and nothing reads. *)
(* isChecklist is set by stored documents only: toggleChecklist has no     *)
(* caller either.                                                          *)
(***************************************************************************)
EXTENDS Integers, Sequences, FiniteSets, TLC

(***************************************************************************)
(* Bounds of the model                                                     *)
(***************************************************************************)
\* ids ever minted by uuidv4 (v4 ids are modelled as fresh: a counter)
MaxId == 3
\* longest node content, in characters
MaxLen == 3

\* null / undefined for an id
NoId == 0

NodeIds == 1..MaxId

(***************************************************************************)
(* Sequence helpers (Array.prototype)                                      *)
(***************************************************************************)
\* list.findIndex(n => n.id === id), 1-based; 0 stands for -1
findIndex(list, id) ==
  IF \E i \in 1..Len(list) : list[i].id = id
  THEN CHOOSE i \in 1..Len(list) :
         /\ list[i].id = id
         /\ \A j \in 1..(i - 1) : list[j].id # id
  ELSE 0

\* newNodes.splice(index, 0, x) with a 1-based position: x becomes element at
splice_insert(list, at, x) ==
  SubSeq(list, 1, at - 1) \o <<x>> \o SubSeq(list, at, Len(list))

\* [...list.slice(0, i), ...list.slice(i + 1)] with 1-based i
splice_remove(list, i) ==
  SubSeq(list, 1, i - 1) \o SubSeq(list, i + 1, Len(list))

RECURSIVE filterNotId(_, _)
\* nodes.filter(n => n.id !== nodeId)
filterNotId(list, nodeId) ==
  IF list = <<>> THEN <<>>
  ELSE IF Head(list).id = nodeId THEN filterNotId(Tail(list), nodeId)
       ELSE <<Head(list)>> \o filterNotId(Tail(list), nodeId)

\* a node as uuidv4() + literal builds it (newBulletAtCaret, loadNoteData)
NewNode(id, content) ==
  [id |-> id, content |-> content, children |-> <<>>, collapsed |-> FALSE,
   isChecklist |-> FALSE, checked |-> FALSE]

(***************************************************************************)
(* Tree mutation engine                                                    *)
(***************************************************************************)
RECURSIVE updateNodeContent(_, _, _)
updateNodeContent(nodeId, content, nodeList) ==
  [i \in 1..Len(nodeList) |->
     IF nodeList[i].id = nodeId
     THEN [nodeList[i] EXCEPT !.content = content]
     ELSE IF Len(nodeList[i].children) > 0
          THEN [nodeList[i] EXCEPT
                  !.children = updateNodeContent(nodeId, content, @)]
          ELSE nodeList[i]]

\* deleteNode that filters the top level only
deleteNode_topLevelOnly(nodeId, nodeList) == filterNotId(nodeList, nodeId)

RECURSIVE deleteNode(_, _)
deleteNode(nodeId, nodeList) ==
  LET filtered == filterNotId(nodeList, nodeId)
  IN  [i \in 1..Len(filtered) |->
         [filtered[i] EXCEPT !.children = deleteNode(nodeId, @)]]

RECURSIVE indentNode_asFirstChild(_, _)
\* indentNode with children: [nodeToIndent, ...previousNode.children]
indentNode_asFirstChild(nodeId, nodeList) ==
  LET index == findIndex(nodeList, nodeId)
  IN  IF index # 0 /\ index > 1
      THEN LET nodeToIndent == nodeList[index]
               previousNode == nodeList[index - 1]
               newNodes     == splice_remove(nodeList, index)
           IN  [newNodes EXCEPT ![index - 1] =
                  [previousNode EXCEPT !.children = <<nodeToIndent>> \o @]]
      ELSE [i \in 1..Len(nodeList) |->
              [nodeList[i] EXCEPT !.children = indentNode_asFirstChild(nodeId, @)]]

RECURSIVE indentNode(_, _)
indentNode(nodeId, nodeList) ==
  LET index == findIndex(nodeList, nodeId)
  IN  IF index # 0 /\ index > 1
      THEN LET nodeToIndent == nodeList[index]
               previousNode == nodeList[index - 1]
               newNodes     == splice_remove(nodeList, index)
           IN  [newNodes EXCEPT ![index - 1] =
                  [previousNode EXCEPT !.children = @ \o <<nodeToIndent>>]]
      ELSE [i \in 1..Len(nodeList) |->
              [nodeList[i] EXCEPT !.children = indentNode(nodeId, @)]]

RECURSIVE insertAfterNode_before(_, _, _)
\* insertAfterNode with splice(index, 0, newNode)
insertAfterNode_before(afterNodeId, newNode, nodeList) ==
  LET index == findIndex(nodeList, afterNodeId)
  IN  IF index # 0
      THEN splice_insert(nodeList, index, newNode)
      ELSE [i \in 1..Len(nodeList) |->
              [nodeList[i] EXCEPT
                 !.children = insertAfterNode_before(afterNodeId, newNode, @)]]

\* insertAfterNode without the index !== -1 test: -1 + 1 is position 0
insertAfterNode_uncheckedIndex(afterNodeId, newNode, nodeList) ==
  splice_insert(nodeList, findIndex(nodeList, afterNodeId) + 1, newNode)

RECURSIVE insertAfterNode(_, _, _)
insertAfterNode(afterNodeId, newNode, nodeList) ==
  LET index == findIndex(nodeList, afterNodeId)
  IN  IF index # 0
      THEN splice_insert(nodeList, index + 1, newNode)
      ELSE [i \in 1..Len(nodeList) |->
              [nodeList[i] EXCEPT
                 !.children = insertAfterNode(afterNodeId, newNode, @)]]

RECURSIVE findParentId(_, _, _)
\* first match of the for-loop, depth first; NoId stands for null
findParentId(list, targetId, parentId) ==
  IF list = <<>> THEN NoId
  ELSE IF Head(list).id = targetId
       THEN parentId
       ELSE LET found == findParentId(Head(list).children, targetId, Head(list).id)
            IN  IF found # NoId THEN found
                ELSE findParentId(Tail(list), targetId, parentId)

RECURSIVE removeNodeFrom(_, _, _, _)
\* removeNode of outdentNode: the loop from position i on
removeNodeFrom(list, nodeId, parentId, i) ==
  IF i > Len(list)
  THEN [updated |-> list, removed |-> <<>>, parentId |-> parentId]
  ELSE IF list[i].id = nodeId
       THEN [updated |-> splice_remove(list, i),
             removed |-> <<list[i]>>, parentId |-> parentId]
       ELSE LET childRes == removeNodeFrom(list[i].children, nodeId, list[i].id, 1)
            IN  IF childRes.removed # <<>>
                THEN [updated |-> [list EXCEPT ![i].children = childRes.updated],
                      removed |-> childRes.removed,
                      parentId |-> childRes.parentId]
                ELSE removeNodeFrom(list, nodeId, parentId, i + 1)

outdentNode(nodeId, nodeList) ==
  IF \E i \in 1..Len(nodeList) : nodeList[i].id = nodeId
  THEN nodeList
  ELSE LET res == removeNodeFrom(nodeList, nodeId, NoId, 1)
       IN  IF res.removed = <<>> \/ res.parentId = NoId
           THEN nodeList
           ELSE insertAfterNode(res.parentId, res.removed[1], res.updated)

RECURSIVE attachChild(_, _, _)
\* attach of addChildNode
attachChild(parentId, child, list) ==
  [i \in 1..Len(list) |->
     IF list[i].id = parentId
     THEN [list[i] EXCEPT !.children = @ \o <<child>>]
     ELSE [list[i] EXCEPT !.children = attachChild(parentId, child, @)]]

RECURSIVE attachChildrenTo_inFront(_, _, _)
\* attachChildrenTo with [...childrenToAdd, ...n.children]
attachChildrenTo_inFront(toId, childrenToAdd, list) ==
  [i \in 1..Len(list) |->
     IF list[i].id = toId
     THEN [list[i] EXCEPT !.children = childrenToAdd \o @]
     ELSE [list[i] EXCEPT !.children = attachChildrenTo_inFront(toId, childrenToAdd, @)]]

RECURSIVE attachChildrenTo(_, _, _)
attachChildrenTo(toId, childrenToAdd, list) ==
  [i \in 1..Len(list) |->
     IF list[i].id = toId
     THEN [list[i] EXCEPT !.children = @ \o childrenToAdd]
     ELSE [list[i] EXCEPT !.children = attachChildrenTo(toId, childrenToAdd, @)]]

RECURSIVE findNodeById(_, _)
\* the node in a one-element sequence, or <<>> for null
findNodeById(list, targetId) ==
  IF list = <<>> THEN <<>>
  ELSE IF Head(list).id = targetId THEN <<Head(list)>>
       ELSE LET found == findNodeById(Head(list).children, targetId)
            IN  IF found # <<>> THEN found
                ELSE findNodeById(Tail(list), targetId)

RECURSIVE containsId(_, _)
\* contains of isDescendant
containsId(arr, targetId) ==
  IF arr = <<>> THEN FALSE
  ELSE \/ Head(arr).id = targetId
       \/ containsId(Head(arr).children, targetId)
       \/ containsId(Tail(arr), targetId)

\* isDescendant that looks at the children of ancestorId only
isDescendant_childrenOnly(list, ancestorId, targetId) ==
  LET n == findNodeById(list, ancestorId)
  IN  /\ n # <<>>
      /\ \E i \in 1..Len(n[1].children) : n[1].children[i].id = targetId

RECURSIVE isDescendant(_, _, _)
isDescendant(list, ancestorId, targetId) ==
  IF list = <<>> THEN FALSE
  ELSE IF Head(list).id = ancestorId
       THEN containsId(Head(list).children, targetId)
       ELSE \/ isDescendant(Head(list).children, ancestorId, targetId)
            \/ isDescendant(Tail(list), ancestorId, targetId)

RECURSIVE setCollapsed(_, _, _)
\* apply of toggleCollapse / setNodeCollapsed
setCollapsed(nodeId, collapsed, list) ==
  [i \in 1..Len(list) |->
     IF list[i].id = nodeId
     THEN [list[i] EXCEPT !.collapsed = collapsed]
     ELSE [list[i] EXCEPT !.children = setCollapsed(nodeId, collapsed, @)]]

RECURSIVE toggleCheckedIn(_, _)
\* apply of toggleChecked
toggleCheckedIn(nodeId, list) ==
  [i \in 1..Len(list) |->
     IF list[i].id = nodeId
     THEN [list[i] EXCEPT !.checked = ~@]
     ELSE [list[i] EXCEPT !.children = toggleCheckedIn(nodeId, @)]]

RECURSIVE getTotalNodeCount(_)
getTotalNodeCount(list) ==
  IF list = <<>> THEN 0
  ELSE 1 + getTotalNodeCount(Head(list).children) + getTotalNodeCount(Tail(list))

(***************************************************************************)
(* Visibility resolver                                                     *)
(***************************************************************************)
RECURSIVE flattenVisibleNodes_ignoringCollapsed(_)
\* flattenVisibleNodes without the !n.collapsed test
flattenVisibleNodes_ignoringCollapsed(list) ==
  IF list = <<>> THEN <<>>
  ELSE <<Head(list)>>
       \o flattenVisibleNodes_ignoringCollapsed(Head(list).children)
       \o flattenVisibleNodes_ignoringCollapsed(Tail(list))

RECURSIVE flattenVisibleNodes(_)
flattenVisibleNodes(list) ==
  IF list = <<>> THEN <<>>
  ELSE LET n == Head(list)
       IN  <<n>>
           \o (IF Len(n.children) > 0 /\ ~n.collapsed
               THEN flattenVisibleNodes(n.children) ELSE <<>>)
           \o flattenVisibleNodes(Tail(list))

RECURSIVE flattenAll(_)
\* the full pre-order traversal, collapse ignored
flattenAll(list) ==
  IF list = <<>> THEN <<>>
  ELSE <<Head(list)>> \o flattenAll(Head(list).children) \o flattenAll(Tail(list))

IdSeq(list) == [i \in 1..Len(list) |-> list[i].id]
Range(s) == {s[i] : i \in 1..Len(s)}
AllIds(forest) == Range(IdSeq(flattenAll(forest)))
VisibleIds(forest) == Range(IdSeq(flattenVisibleNodes(forest)))
NoDuplicateIds(forest) ==
  Cardinality(AllIds(forest)) = Len(flattenAll(forest))


RECURSIVE findPath(_, _, _)
\* ids from the root down to targetId (the chain of renderNode calls that
\* renders targetId's element), <<>> when targetId is not in the forest
findPath(list, targetId, path) ==
  IF list = <<>> THEN <<>>
  ELSE IF Head(list).id = targetId THEN path \o <<targetId>>
       ELSE LET found == findPath(Head(list).children, targetId,
                                  path \o <<Head(list).id>>)
            IN  IF found # <<>> THEN found
                ELSE findPath(Tail(list), targetId, path)

(***************************************************************************)
(* Caret / plain text adapters                                             *)
(***************************************************************************)
IsSpace(ch) == ch = " "

RECURSIVE toPlain(_)
\* html.replace(/<[^>]+>/g, ''): drops every "<", one or more non-">", ">"
toPlain(html) ==
  IF html = <<>> THEN <<>>
  ELSE IF Head(html) = "<"
            /\ \E j \in 3..Len(html) :
                 /\ html[j] = ">"
                 /\ \A k \in 2..(j - 1) : html[k] # ">"
       THEN LET j == CHOOSE j \in 3..Len(html) :
                       /\ html[j] = ">"
                       /\ \A k \in 2..(j - 1) : html[k] # ">"
            IN  toPlain(SubSeq(html, j + 1, Len(html)))
       ELSE <<Head(html)>> \o toPlain(Tail(html))

\* needsSpace that tests the html itself, tags included
needsSpace_onHtml(prevHtml, currHtml) ==
  /\ prevHtml # <<>> /\ ~IsSpace(prevHtml[Len(prevHtml)])
  /\ currHtml # <<>> /\ ~IsSpace(currHtml[1])

\* /\S$/.test(prevPlain) && /^\S/.test(currPlain)
needsSpace(prevHtml, currHtml) ==
  LET prevPlain == toPlain(prevHtml)
      currPlain == toPlain(currHtml)
  IN  /\ prevPlain # <<>> /\ ~IsSpace(prevPlain[Len(prevPlain)])
      /\ currPlain # <<>> /\ ~IsSpace(currPlain[1])

\* mergedHtml that puts the space in whatever the two sides are
mergedHtml_alwaysSpace(prevHtml, currHtml) == prevHtml \o <<" ">> \o currHtml

mergedHtml(prevHtml, currHtml) ==
  IF needsSpace(prevHtml, currHtml)
  THEN prevHtml \o <<" ">> \o currHtml
  ELSE prevHtml \o currHtml

\* getPlainText(div).trim() === ''
isBlank(content) == \A i \in 1..Len(content) : IsSpace(content[i])

contentOf(forest, id) ==
  LET n == findNodeById(forest, id)
  IN  IF n = <<>> THEN <<>> ELSE n[1].content

childrenOf(forest, id) ==
  LET n == findNodeById(forest, id)
  IN  IF n = <<>> THEN <<>> ELSE n[1].children

\* findNodeById(nodes, nodeId)?.collapsed || false
collapsedIn(forest, id) ==
  LET n == findNodeById(forest, id)
  IN  IF n = <<>> THEN FALSE ELSE n[1].collapsed


\* newBulletAtCaret that puts the new node under nodeId, as its last child
splitAtCaret_asChild(nodeId, k, newId, forest) ==
  LET html     == contentOf(forest, nodeId)
      headHTML == SubSeq(html, 1, k)
      tailHTML == SubSeq(html, k + 1, Len(html))
      withHead == updateNodeContent(nodeId, headHTML, forest)
  IN  attachChild(nodeId, NewNode(newId, tailHTML), withHead)

\* the forest newBulletAtCaret builds: head stays in nodeId, the tail moves
\* into a new node with id newId inserted after it
splitAtCaret(nodeId, k, newId, forest) ==
  LET html       == contentOf(forest, nodeId)
      headHTML   == SubSeq(html, 1, k)
      tailHTML   == SubSeq(html, k + 1, Len(html))
      newNode    == NewNode(newId, tailHTML)
      withHead   == updateNodeContent(nodeId, headHTML, forest)
  IN  insertAfterNode(nodeId, newNode, withHead)

\* the previous sibling, or the parent for a first child, instead of
\* flat[idx - 1]
previousVisibleId_siblingOrParent(nodeId, forest) ==
  LET parent == findParentId(forest, nodeId, NoId)
      level  == IF parent = NoId THEN forest ELSE childrenOf(forest, parent)
      index  == findIndex(level, nodeId)
  IN  IF index > 1 THEN level[index - 1].id ELSE parent

\* flat[idx - 1].id of the Backspace branch, NoId when idx is not > 0
previousVisibleId(nodeId, forest) ==
  LET flat == flattenVisibleNodes(forest)
      idx  == findIndex(flat, nodeId)
  IN  IF idx > 1 THEN flat[idx - 1].id ELSE NoId

\* the forest the Backspace merge branch builds for nodeId and prevId
mergeIntoPrevious(nodeId, prevId, forest) ==
  LET merged       == mergedHtml(contentOf(forest, prevId), contentOf(forest, nodeId))
      withMerged   == updateNodeContent(prevId, merged, forest)
      withChildren == attachChildrenTo(prevId, childrenOf(forest, nodeId), withMerged)
  IN  deleteNode(nodeId, withChildren)

(***************************************************************************)
(* State of the running application                                        *)
(***************************************************************************)
VARIABLES
  noteId,          \* Home.selectedNoteId = key and noteId prop of the mounted NotesEditor
  loading,         \* TRUE while the mounted editor's loadNote is in flight
  nodes,           \* NotesEditor state `nodes`
  latestNodesRef,  \* latestNodesRef.current
  activeNodeId,    \* NotesEditor state `activeNodeId`
  domFocus,        \* id of the node whose text surface is document.activeElement
  saveTimer,       \* saveTimer.current: <<>> or <<[data, left]>>
  nextId,          \* next id uuidv4() returns
  orphanTimers,    \* window timers set by editors that have since unmounted
  inflight,        \* saveNote requests sent and not yet applied by the store
  store,           \* the notes collection: note id -> document
  issued,          \* saveNoteData calls made by the last step, in order
  network,         \* "async": the store answers later; "instant": within the turn
  orphanLoads,     \* loadNote calls of editors that have since unmounted
  metaFrom,        \* note whose stored title, tags and notebook the editor shows, NoNoteId for '', [], null
  chat,            \* AISidebar: showRight of Home, messages, isLoading, fetches in flight
  deleteInflight,  \* deleteNote calls sent and not yet answered
  probe            \* observer: what a law was applied to and gave, or the counts of a run

vars == <<noteId, loading, nodes, latestNodesRef, activeNodeId, domFocus,
          saveTimer, nextId, orphanTimers, inflight, store, issued, network, orphanLoads, metaFrom,
          chat, deleteInflight, probe>>

\* quiet period of scheduleSave, in ms
DebounceMs == 400
\* granularity of the clock, in ms
TickMs == 200
\* saveNote requests in flight at once
MaxInflight == 2
\* note switches in one run
MaxOrphans == 1
\* loadNote calls of unmounted editors in flight at once
MaxStaleLoads == 2

NoteIds == {"A", "B"}
\* no note: the editor shows the initial title '', tags [] and notebook null
NoNoteId == "-"
\* getDoc: a missing document, or the document with its rootNodes
NoNote == [exists |-> FALSE, rootNodes |-> <<>>]
StoredNote(rootNodes) == [exists |-> TRUE, rootNodes |-> rootNodes]
Chars == {"a", " "}
\* what one input event can leave in a text surface
TypedContents == {<<>>, <<"a">>, <<" ">>}

\* the request saveNoteData sends: saveNote(user.uid, noteId, {rootNodes})
SaveRequest(note, rootNodes) == [note |-> note, rootNodes |-> rootNodes]

RequestSet(calls) == {calls[i] : i \in 1..Len(calls)}

RECURSIVE applyRequests(_, _)
\* the store after it has applied the requests in order (setDoc overwrites)
applyRequests(st, calls) ==
  IF calls = <<>> THEN st
  ELSE applyRequests([st EXCEPT ![Head(calls).note] = StoredNote(Head(calls).rootNodes)],
                     Tail(calls))

\* saveNoteData -> saveNote -> setDoc for each call, in order
Send(calls) ==
  /\ issued' = calls
  /\ IF network = "instant"
     THEN /\ store' = applyRequests(store, calls)
          /\ inflight' = inflight
     ELSE /\ Cardinality(inflight \cup RequestSet(calls)) <= MaxInflight
          /\ inflight' = inflight \cup RequestSet(calls)
          /\ store' = store

\* scheduleSave: clearTimeout of a pending timer, then setTimeout(..., 400)
scheduleSave(data) == <<[data |-> data, left |-> DebounceMs]>>

\* the element of node id survives a re-render: it is rendered before and
\* after under the same chain of keyed parents
ElementKept(before, after, id) ==
  /\ id \in VisibleIds(before)
  /\ id \in VisibleIds(after)
  /\ findPath(before, id, <<>>) = findPath(after, id, <<>>)

(***************************************************************************)
(* One event handler run to completion: setNodes(next), the saveNoteData   *)
(* calls of the handler (immediate), the commit (the focused element may   *)
(* be unmounted: React delivers no onBlur for it), the latestNodesRef      *)
(* effect, then the requestAnimationFrame focusNode(target) with the       *)
(* onBlur of the surface that loses focus and the onFocus of target.       *)
(* timer is saveTimer as the handler left it.                              *)
(***************************************************************************)
Commit(next, target, immediate, timer) ==
  LET dom1     == IF domFocus # NoId /\ ElementKept(nodes, next, domFocus)
                  THEN domFocus ELSE NoId
      canFocus == target # NoId /\ target \in VisibleIds(next)
      moves    == canFocus /\ dom1 # target
      flush    == moves /\ dom1 # NoId /\ timer # <<>>
      calls    == immediate
                  \o (IF flush THEN <<SaveRequest(noteId, next)>> ELSE <<>>)
  IN  /\ Send(calls)
      /\ nodes' = next
      /\ latestNodesRef' = next
      /\ domFocus' = IF canFocus THEN target ELSE dom1
      /\ activeNodeId' = IF moves THEN target ELSE activeNodeId
      /\ saveTimer' = IF flush THEN <<>> ELSE timer

\* handleKeyDown reaches a node only through its focused text surface
KeyTarget == domFocus # NoId /\ ~loading

(***************************************************************************)
(* Handlers                                                                *)
(***************************************************************************)
\* handleContentChange that also saves at once
Input_savesAtOnce(content) ==
  /\ KeyTarget
  /\ content # contentOf(nodes, domFocus)
  /\ LET updatedNodes == updateNodeContent(domFocus, content, nodes)
     IN  Commit(updatedNodes, NoId, <<SaveRequest(noteId, updatedNodes)>>,
                scheduleSave(updatedNodes))
  /\ UNCHANGED <<noteId, loading, nextId, orphanTimers, network, orphanLoads, metaFrom,
                 chat, deleteInflight>>

\* onInput -> handleContentChange(node.id, innerHTML)
Input(content) ==
  /\ KeyTarget
  /\ content # contentOf(nodes, domFocus)
  /\ LET updatedNodes == updateNodeContent(domFocus, content, nodes)
     IN  Commit(updatedNodes, NoId, <<>>, scheduleSave(updatedNodes))
  /\ UNCHANGED <<noteId, loading, nextId, orphanTimers, network, orphanLoads, metaFrom,
                 chat, deleteInflight>>

\* Enter -> newBulletAtCaret(nodeId), caret at offset k of the content
Enter(k) ==
  /\ KeyTarget
  /\ nextId <= MaxId
  /\ k \in 0..Len(contentOf(nodes, domFocus))
  /\ LET withInsert == splitAtCaret(domFocus, k, nextId, nodes)
     IN  Commit(withInsert, nextId, <<SaveRequest(noteId, withInsert)>>, saveTimer)
  /\ nextId' = nextId + 1
  /\ UNCHANGED <<noteId, loading, orphanTimers, network, orphanLoads, metaFrom,
                 chat, deleteInflight>>

\* Tab that saves through scheduleSave instead of saveNoteData
Tab_debounced ==
  /\ KeyTarget
  /\ LET updatedNodes == indentNode(domFocus, nodes)
     IN  Commit(updatedNodes, domFocus, <<>>, scheduleSave(updatedNodes))
  /\ UNCHANGED <<noteId, loading, nextId, orphanTimers, network, orphanLoads, metaFrom,
                 chat, deleteInflight>>

\* Tab -> indentNode
Tab ==
  /\ KeyTarget
  /\ LET updatedNodes == indentNode(domFocus, nodes)
     IN  Commit(updatedNodes, domFocus,
                <<SaveRequest(noteId, updatedNodes)>>, saveTimer)
  /\ UNCHANGED <<noteId, loading, nextId, orphanTimers, network, orphanLoads, metaFrom,
                 chat, deleteInflight>>

\* Shift+Tab -> outdentNode
ShiftTab ==
  /\ KeyTarget
  /\ LET updatedNodes == outdentNode(domFocus, nodes)
     IN  Commit(updatedNodes, domFocus,
                <<SaveRequest(noteId, updatedNodes)>>, saveTimer)
  /\ UNCHANGED <<noteId, loading, nextId, orphanTimers, network, orphanLoads, metaFrom,
                 chat, deleteInflight>>

\* Backspace with isAtStart(div) and a previous visible node: merge
BackspaceMerge ==
  /\ KeyTarget
  /\ LET prevId      == previousVisibleId(domFocus, nodes)
         afterDelete == mergeIntoPrevious(domFocus, prevId, nodes)
     IN  /\ prevId # NoId
         /\ Len(contentOf(afterDelete, prevId)) <= MaxLen
         /\ Commit(afterDelete, prevId,
                   <<SaveRequest(noteId, afterDelete)>>, saveTimer)
  /\ UNCHANGED <<noteId, loading, nextId, orphanTimers, network, orphanLoads, metaFrom,
                 chat, deleteInflight>>

\* Backspace on a blank bullet that is not merged: delete it.  atStart is
\* isAtStart(div); the merge branch takes the key when atStart and idx > 0.
BackspaceDelete(atStart) ==
  /\ KeyTarget
  /\ LET flatBefore   == flattenVisibleNodes(nodes)
         currentIndex == findIndex(flatBefore, domFocus)
         updatedNodes == deleteNode(domFocus, nodes)
         flatAfter    == flattenVisibleNodes(updatedNodes)
         \* Math.max(0, currentIndex - 1), clamped; 1-based here
         wanted       == IF currentIndex - 1 >= 1 THEN currentIndex - 1 ELSE 1
         targetIdx    == IF wanted > Len(flatAfter) THEN Len(flatAfter) ELSE wanted
         targetId     == IF targetIdx >= 1 THEN flatAfter[targetIdx].id ELSE NoId
     IN  /\ ~(atStart /\ currentIndex > 1)
         /\ atStart \/ contentOf(nodes, domFocus) # <<>>
         /\ isBlank(contentOf(nodes, domFocus))
         /\ getTotalNodeCount(nodes) > 1
         /\ Commit(updatedNodes, targetId,
                   <<SaveRequest(noteId, updatedNodes)>>, saveTimer)
  /\ UNCHANGED <<noteId, loading, nextId, orphanTimers, network, orphanLoads, metaFrom,
                 chat, deleteInflight>>

\* click on the collapse button of a rendered node that has children
ToggleCollapse(c) ==
  /\ ~loading
  /\ c \in VisibleIds(nodes)
  /\ childrenOf(nodes, c) # <<>>
  /\ LET willCollapse == ~findNodeById(nodes, c)[1].collapsed
         next         == setCollapsed(c, willCollapse, nodes)
         refocus      == /\ willCollapse
                         /\ activeNodeId # NoId
                         /\ isDescendant(nodes, c, activeNodeId)
     IN  Commit(next, IF refocus THEN c ELSE NoId,
                <<SaveRequest(noteId, next)>>, saveTimer)
  /\ UNCHANGED <<noteId, loading, nextId, orphanTimers, network, orphanLoads, metaFrom,
                 chat, deleteInflight>>

\* click on the check box of a rendered checklist node
ToggleChecked(c) ==
  /\ ~loading
  /\ c \in VisibleIds(nodes)
  /\ findNodeById(nodes, c)[1].isChecklist
  /\ LET next == toggleCheckedIn(c, nodes)
     IN  Commit(next, NoId, <<SaveRequest(noteId, next)>>, saveTimer)
  /\ UNCHANGED <<noteId, loading, nextId, orphanTimers, network, orphanLoads, metaFrom,
                 chat, deleteInflight>>

\* toolbar "Focus child": focus the first child, or addChildNode(activeNodeId)
FocusChild ==
  /\ ~loading
  /\ activeNodeId # NoId
  /\ LET kids == childrenOf(nodes, activeNodeId)
     IN  IF kids # <<>>
         THEN /\ Commit(nodes, kids[1].id, <<>>, saveTimer)
              /\ UNCHANGED nextId
         ELSE /\ nextId <= MaxId
              /\ LET child == NewNode(nextId, <<>>)
                     next  == attachChild(activeNodeId, child, nodes)
                 IN  Commit(next, child.id, <<SaveRequest(noteId, next)>>, saveTimer)
              /\ nextId' = nextId + 1
  /\ UNCHANGED <<noteId, loading, orphanTimers, network, orphanLoads, metaFrom,
                 chat, deleteInflight>>

\* the user clicks into the text surface of another rendered node
Focus(id) ==
  /\ ~loading
  /\ id \in VisibleIds(nodes)
  /\ id # domFocus
  /\ Commit(nodes, id, <<>>, saveTimer)
  /\ UNCHANGED <<noteId, loading, nextId, orphanTimers, network, orphanLoads, metaFrom,
                 chat, deleteInflight>>

\* onBlur that flushes the forest the timer captured
Blur_timerData ==
  /\ domFocus # NoId
  /\ LET calls == IF saveTimer # <<>>
                  THEN <<SaveRequest(noteId, saveTimer[1].data)>> ELSE <<>>
     IN  Send(calls)
  /\ saveTimer' = <<>>
  /\ domFocus' = NoId
  /\ UNCHANGED <<noteId, loading, nodes, latestNodesRef, activeNodeId, nextId,
                 orphanTimers, network, orphanLoads, metaFrom,
                 chat, deleteInflight>>

\* onBlur of the focused text surface (focus leaves the editor)
Blur ==
  /\ domFocus # NoId
  /\ LET calls == IF saveTimer # <<>>
                  THEN <<SaveRequest(noteId, latestNodesRef)>> ELSE <<>>
     IN  Send(calls)
  /\ saveTimer' = <<>>
  /\ domFocus' = NoId
  /\ UNCHANGED <<noteId, loading, nodes, latestNodesRef, activeNodeId, nextId,
                 orphanTimers, network, orphanLoads, metaFrom,
                 chat, deleteInflight>>

(***************************************************************************)
(* Timers                                                                  *)
(***************************************************************************)
TimerDue(t) == t.left <= 0

AnyTimerDue ==
  \/ saveTimer # <<>> /\ TimerDue(saveTimer[1])
  \/ \E t \in orphanTimers : TimerDue(t)

\* TickMs of time pass; a due timer runs before more time passes
Tick ==
  /\ saveTimer # <<>> \/ orphanTimers # {}
  /\ ~AnyTimerDue
  /\ saveTimer' = IF saveTimer = <<>> THEN <<>>
                  ELSE <<[saveTimer[1] EXCEPT !.left = @ - TickMs]>>
  /\ orphanTimers' = {[t EXCEPT !.left = @ - TickMs] : t \in orphanTimers}
  /\ issued' = <<>>
  /\ UNCHANGED <<noteId, loading, nodes, latestNodesRef, activeNodeId, domFocus,
                 nextId, inflight, store, network, orphanLoads, metaFrom,
                 chat, deleteInflight>>

\* the setTimeout callback of scheduleSave in the mounted editor
TimerFire ==
  /\ saveTimer # <<>>
  /\ TimerDue(saveTimer[1])
  /\ Send(<<SaveRequest(noteId, saveTimer[1].data)>>)
  /\ saveTimer' = <<>>
  /\ UNCHANGED <<noteId, loading, nodes, latestNodesRef, activeNodeId, domFocus,
                 nextId, orphanTimers, network, orphanLoads, metaFrom,
                 chat, deleteInflight>>

\* the same callback, set by an editor that has unmounted since
OrphanTimerFire(t) ==
  /\ t \in orphanTimers
  /\ TimerDue(t)
  /\ Send(<<SaveRequest(t.note, t.data)>>)
  /\ orphanTimers' = orphanTimers \ {t}
  /\ UNCHANGED <<noteId, loading, nodes, latestNodesRef, activeNodeId, domFocus,
                 saveTimer, nextId, network, orphanLoads, metaFrom,
                 chat, deleteInflight>>

(***************************************************************************)
(* Note switching, load and the store                                      *)
(***************************************************************************)
\* Home.handleNoteSelect: <NotesEditor key={selectedNoteId}> remounts.  The
\* unmounting editor has no effect cleanup for saveTimer.
SelectNote(b) ==
  /\ b \in NoteIds
  /\ b # noteId
  /\ Cardinality(orphanTimers) + (IF saveTimer # <<>> THEN 1 ELSE 0) <= MaxOrphans
  /\ Cardinality(orphanLoads) + (IF loading THEN 1 ELSE 0) <= MaxStaleLoads
  /\ noteId' = b
  /\ orphanLoads' = orphanLoads \cup
       (IF loading
        THEN {[note |-> noteId,
               k |-> CHOOSE k \in 1..MaxStaleLoads : \A l \in orphanLoads : l.k # k]}
        ELSE {})
  /\ orphanTimers' = orphanTimers \cup
       (IF saveTimer # <<>>
        THEN {[note |-> noteId, data |-> saveTimer[1].data, left |-> saveTimer[1].left]}
        ELSE {})
  /\ loading' = TRUE
  /\ nodes' = <<>>
  /\ latestNodesRef' = <<>>
  /\ activeNodeId' = NoId
  /\ domFocus' = NoId
  /\ saveTimer' = <<>>
  /\ issued' = <<>>
  /\ metaFrom' = NoNoteId
  \* the continuation of a deleteNote in flight now sets no mounted state
  /\ deleteInflight' = {[d EXCEPT !.live = FALSE] : d \in deleteInflight}
  /\ UNCHANGED <<nextId, inflight, store, network, chat>>

\* loadNoteData that shows whatever roots the document has, none included
LoadDone_storedRootsOnly ==
  /\ loading
  /\ LET roots == store[noteId].rootNodes
     IN  /\ nodes' = roots
         /\ latestNodesRef' = roots
         /\ activeNodeId' = IF roots = <<>> THEN NoId ELSE roots[1].id
         /\ domFocus' = IF roots = <<>> THEN NoId ELSE roots[1].id
         /\ metaFrom' = IF store[noteId].exists THEN noteId ELSE NoNoteId
  /\ loading' = FALSE
  /\ issued' = <<>>
  /\ UNCHANGED <<noteId, saveTimer, nextId, orphanTimers, inflight, store, network,
                 orphanLoads,
                 chat, deleteInflight>>

\* loadNoteData after loadNote resolves, then the auto-focus effect
LoadDone ==
  /\ loading
  /\ LET note  == store[noteId]
         found == note.exists /\ Len(note.rootNodes) > 0
         roots == IF found THEN note.rootNodes ELSE <<NewNode(nextId, <<>>)>>
     IN  /\ found \/ nextId <= MaxId
         /\ nodes' = roots
         /\ latestNodesRef' = roots
         /\ activeNodeId' = roots[1].id
         /\ domFocus' = roots[1].id
         /\ nextId' = IF found THEN nextId ELSE nextId + 1
         /\ metaFrom' = IF found THEN noteId ELSE NoNoteId
  /\ loading' = FALSE
  /\ issued' = <<>>
  /\ UNCHANGED <<noteId, saveTimer, orphanTimers, inflight, store, network, orphanLoads,
                 chat, deleteInflight>>

\* loadNoteData when loadNote throws: the catch branch
LoadFailed ==
  /\ loading
  /\ nextId <= MaxId
  /\ LET roots == <<NewNode(nextId, <<>>)>>
     IN  /\ nodes' = roots
         /\ latestNodesRef' = roots
         /\ activeNodeId' = roots[1].id
         /\ domFocus' = roots[1].id
  /\ nextId' = nextId + 1
  /\ metaFrom' = NoNoteId
  /\ loading' = FALSE
  /\ issued' = <<>>
  /\ UNCHANGED <<noteId, saveTimer, orphanTimers, inflight, store, network, orphanLoads,
                 chat, deleteInflight>>

\* a stale response whose setNodes reaches the mounted editor
OrphanLoadDone_applied(l) ==
  /\ l \in orphanLoads
  /\ orphanLoads' = orphanLoads \ {l}
  /\ LET note  == store[l.note]
         found == note.exists /\ Len(note.rootNodes) > 0
         roots == IF found THEN note.rootNodes ELSE <<NewNode(nextId, <<>>)>>
     IN  /\ nodes' = roots
         /\ latestNodesRef' = roots
         /\ metaFrom' = IF found THEN l.note ELSE NoNoteId
  /\ loading' = FALSE
  /\ issued' = <<>>
  /\ UNCHANGED <<noteId, activeNodeId, domFocus, saveTimer, nextId, orphanTimers,
                 inflight, store, network,
                 chat, deleteInflight>>

\* loadNote resolves for an editor that has unmounted: its setNodes,
\* setSelectedNotebookId, setTags and setNoteTitle update no mounted state
OrphanLoadDone(l) ==
  /\ l \in orphanLoads
  /\ orphanLoads' = orphanLoads \ {l}
  /\ issued' = <<>>
  /\ UNCHANGED <<noteId, loading, nodes, latestNodesRef, activeNodeId, domFocus,
                 saveTimer, nextId, orphanTimers, inflight, store, network, metaFrom,
                 chat, deleteInflight>>

\* the store applies one saveNote request (setDoc overwrites the document)
SaveDone(r) ==
  /\ r \in inflight
  /\ store' = [store EXCEPT ![r.note] = StoredNote(r.rootNodes)]
  /\ inflight' = inflight \ {r}
  /\ issued' = <<>>
  /\ UNCHANGED <<noteId, loading, nodes, latestNodesRef, activeNodeId, domFocus,
                 saveTimer, nextId, orphanTimers, network, orphanLoads, metaFrom,
                 chat, deleteInflight>>

\* a failed save that puts the stored forest back into the editor
SaveFail_rollsBack(r) ==
  /\ r \in inflight
  /\ inflight' = inflight \ {r}
  /\ nodes' = store[r.note].rootNodes
  /\ latestNodesRef' = store[r.note].rootNodes
  /\ issued' = <<>>
  /\ UNCHANGED <<noteId, loading, activeNodeId, domFocus, saveTimer, nextId,
                 orphanTimers, store, network, orphanLoads, metaFrom,
                 chat, deleteInflight>>

\* saveNote rejects: the catch of saveNoteData logs the error
SaveFail(r) ==
  /\ r \in inflight
  /\ inflight' = inflight \ {r}
  /\ issued' = <<>>
  /\ UNCHANGED <<noteId, loading, nodes, latestNodesRef, activeNodeId, domFocus,
                 saveTimer, nextId, orphanTimers, store, network, orphanLoads, metaFrom,
                 chat, deleteInflight>>

\* notes that can be in the store when the application starts
\* deleteNote calls in flight at once
MaxDeletes == 1

\* click on "Delete note", confirm() answered OK: the handler up to its
\* await.  Whether the click moves focus to the button, and so blurs the
\* focused text surface, depends on the browser: blurs is that choice.
DeleteClick(blurs) ==
  /\ ~loading
  /\ Cardinality(deleteInflight) < MaxDeletes
  /\ IF blurs /\ domFocus # NoId
     THEN /\ Send(IF saveTimer # <<>>
                  THEN <<SaveRequest(noteId, latestNodesRef)>> ELSE <<>>)
          /\ saveTimer' = <<>>
          /\ domFocus' = NoId
     ELSE /\ Send(<<>>)
          /\ UNCHANGED <<saveTimer, domFocus>>
  /\ deleteInflight' = deleteInflight \cup {[note |-> noteId, live |-> TRUE]}
  /\ UNCHANGED <<noteId, loading, nodes, latestNodesRef, activeNodeId, nextId,
                 orphanTimers, network, orphanLoads, metaFrom, chat>>

\* deleteDoc succeeds and the handler resumes: setNodes([initialNode]),
\* setSelectedNotebookId(null), setTags([]), setNoteTitle('').  The text
\* surfaces of the old nodes unmount; saveTimer is not touched.
DeleteDone(d) ==
  /\ d \in deleteInflight
  /\ deleteInflight' = deleteInflight \ {d}
  /\ store' = [store EXCEPT ![d.note] = NoNote]
  /\ issued' = <<>>
  /\ IF d.live
     THEN /\ nextId <= MaxId
          /\ nodes' = <<NewNode(nextId, <<>>)>>
          /\ latestNodesRef' = <<NewNode(nextId, <<>>)>>
          /\ nextId' = nextId + 1
          /\ metaFrom' = NoNoteId
          /\ domFocus' = NoId
     ELSE UNCHANGED <<nodes, latestNodesRef, nextId, metaFrom, domFocus>>
  /\ UNCHANGED <<noteId, loading, activeNodeId, saveTimer, orphanTimers, inflight,
                 network, orphanLoads, chat>>

\* deleteDoc rejects: the catch block logs and alerts
DeleteFailed(d) ==
  /\ d \in deleteInflight
  /\ deleteInflight' = deleteInflight \ {d}
  /\ issued' = <<>>
  /\ UNCHANGED <<noteId, loading, nodes, latestNodesRef, activeNodeId, domFocus,
                 saveTimer, nextId, orphanTimers, inflight, store, network,
                 orphanLoads, metaFrom, chat>>

\* the transcript may hold this many messages
MaxChat == 4
\* fetches of unmounted sidebars in flight at once
MaxStaleReplies == 1
\* sendMessage calls that return at once, in one run
MaxIgnored == 2

\* 'Sorry, I encountered an error. Please try again.'
ErrorText == <<"!">>
\* data.response of a successful reply
ReplyTexts == {<<"a">>, <<"a", "a">>}

\* AISidebar as Home mounts it: showRight, and the initial useState values
ChatMounted ==
  [shown |-> TRUE, messages |-> <<>>, isLoading |-> FALSE, requests |-> {}]

StoredNotes ==
  { NoNote,
    StoredNote(<<[NewNode(1, <<"a", " ", "a">>) EXCEPT !.isChecklist = TRUE]>>),
    StoredNote(<<[NewNode(1, <<>>) EXCEPT
                    !.children = <<NewNode(2, <<"a">>)>>]>>) }

\* the application right after Home mounts NotesEditor for note "A"
Mounted ==
  /\ noteId = "A"
  /\ loading = TRUE
  /\ nodes = <<>>
  /\ latestNodesRef = <<>>
  /\ activeNodeId = NoId
  /\ domFocus = NoId
  /\ saveTimer = <<>>
  /\ orphanTimers = {}
  /\ inflight = {}
  /\ issued = <<>>
  /\ orphanLoads = {}
  /\ metaFrom = NoNoteId
  /\ chat = ChatMounted
  /\ deleteInflight = {}
  /\ store \in [NoteIds -> StoredNotes]
  /\ store["B"] = NoNote
  /\ nextId = 1 + getTotalNodeCount(store["A"].rootNodes)

(***************************************************************************)
(* Spec: structural editing of one note with the keyboard and the buttons; *)
(* the store answers within the turn                                       *)
(***************************************************************************)
Init ==
  /\ Mounted
  /\ network = "instant"
  /\ probe = <<>>

Next ==
  \/ (\E k \in 0..MaxLen : Enter(k)) /\ UNCHANGED probe
  \/ Tab /\ UNCHANGED probe
  \/ ShiftTab /\ UNCHANGED probe
  \/ BackspaceMerge /\ UNCHANGED probe
  \/ (\E atStart \in BOOLEAN : BackspaceDelete(atStart)) /\ UNCHANGED probe
  \/ (\E c \in NodeIds : ToggleCollapse(c)) /\ UNCHANGED probe
  \/ (\E c \in NodeIds : ToggleChecked(c)) /\ UNCHANGED probe
  \/ FocusChild /\ UNCHANGED probe
  \/ (\E id \in NodeIds : Focus(id)) /\ UNCHANGED probe
  \/ Blur /\ UNCHANGED probe
  \/ LoadDone /\ UNCHANGED probe

Spec == Init /\ [][Next]_vars

(***************************************************************************)
(* SpecSave: typing, collapse toggles, focus changes and leaving note "A"  *)
(* for note "B"; the store answers within the turn                         *)
(***************************************************************************)
InitSave ==
  /\ Mounted
  /\ network = "instant"
  /\ probe = <<>>

NextSave ==
  \/ (\E content \in TypedContents : Input(content)) /\ UNCHANGED probe
  \/ (\E c \in NodeIds : ToggleCollapse(c)) /\ UNCHANGED probe
  \/ (\E id \in NodeIds : Focus(id)) /\ UNCHANGED probe
  \/ Blur /\ UNCHANGED probe
  \/ Tick /\ UNCHANGED probe
  \/ TimerFire /\ UNCHANGED probe
  \/ (\E t \in orphanTimers : OrphanTimerFire(t)) /\ UNCHANGED probe
  \/ SelectNote("B") /\ UNCHANGED probe
  \/ LoadDone /\ UNCHANGED probe

SpecSave == InitSave /\ [][NextSave]_vars

(***************************************************************************)
(* SpecAsync: the same events in front of a store that answers later and   *)
(* applies the requests in flight in any order                             *)
(***************************************************************************)
InitAsync ==
  /\ Mounted
  /\ network = "async"
  /\ probe = <<>>

NextAsync ==
  \/ (\E content \in TypedContents : Input(content)) /\ UNCHANGED probe
  \/ (\E c \in NodeIds : ToggleCollapse(c)) /\ UNCHANGED probe
  \/ Blur /\ UNCHANGED probe
  \/ Tick /\ UNCHANGED probe
  \/ TimerFire /\ UNCHANGED probe
  \/ LoadDone /\ UNCHANGED probe
  \/ (\E r \in inflight : SaveDone(r)) /\ UNCHANGED probe

SpecAsync == InitAsync /\ [][NextAsync]_vars

(***************************************************************************)
(* SpecDebounce: a run of content edits to the focused node, with the      *)
(* clock; probe counts the edits and the save calls                        *)
(***************************************************************************)
\* content edits in one run
MaxEdits == 3

InitDebounce ==
  /\ Mounted
  /\ network = "instant"
  /\ probe = [edits |-> 0, saves |-> 0, close |-> TRUE, far |-> TRUE,
              sinceEdit |-> 0, last |-> <<>>]

\* close: every edit so far came while the timer of the one before was still
\* running (less than DebounceMs after it); far: every edit so far came after
\* the timer of the one before had fired
DebounceInput(content) ==
  /\ probe.edits < MaxEdits
  /\ Input(content)
  /\ probe' = [probe EXCEPT
       !.edits = @ + 1,
       !.saves = @ + Len(issued'),
       !.close = @ /\ (probe.edits = 0
                       \/ (saveTimer # <<>> /\ ~TimerDue(saveTimer[1]))),
       !.far = @ /\ (probe.edits = 0 \/ saveTimer = <<>>),
       !.sinceEdit = 0]

DebounceTick ==
  /\ Tick
  /\ probe' = [probe EXCEPT !.sinceEdit = @ + TickMs]

DebounceTimerFire ==
  /\ TimerFire
  /\ probe' = [probe EXCEPT !.saves = @ + Len(issued'), !.last = issued']

NextDebounce ==
  \/ \E content \in TypedContents : DebounceInput(content)
  \/ DebounceTick
  \/ DebounceTimerFire
  \/ LoadDone /\ UNCHANGED probe

SpecDebounce == InitDebounce /\ [][NextDebounce]_vars

(***************************************************************************)
(* SpecLaws: the tree operations applied to forests drawn from bounded     *)
(* sets; probe records what a law was applied to and what it gave          *)
(***************************************************************************)
\* nodes of a sampled forest
MaxNodes == 4
\* nodes of a sampled forest whose contents vary
MaxSplitNodes == 2
\* longest sampled content
MaxSampleLen == 2

RECURSIVE StringsOf(_)
\* the contents of exactly n characters
StringsOf(n) ==
  IF n = 0 THEN {<<>>}
  ELSE {<<c>> \o t : c \in Chars, t \in StringsOf(n - 1)}

SampleContents == UNION {StringsOf(n) : n \in 0..MaxSampleLen}

RECURSIVE ForestsOf(_, _, _, _)
\* the forests of exactly n NoteNodes with ids k, k+1, ... in pre-order,
\* contents in Cs and collapsed flags in Bs
ForestsOf(n, k, Cs, Bs) ==
  IF n = 0 THEN {<<>>}
  ELSE UNION {
         {<<[id |-> k, content |-> c, children |-> kids, collapsed |-> b,
              isChecklist |-> FALSE, checked |-> FALSE]>> \o rest :
            c \in Cs, b \in Bs,
            kids \in ForestsOf(i, k + 1, Cs, Bs),
            rest \in ForestsOf(n - 1 - i, k + 1 + i, Cs, Bs)} :
         i \in 0..(n - 1)}

SampleForests ==
  UNION {ForestsOf(n, 1, {<<"a">>}, BOOLEAN) : n \in 1..MaxNodes}
  \cup UNION {ForestsOf(n, 1, SampleContents, {FALSE}) : n \in 1..MaxSplitNodes}

InitLaws ==
  /\ nodes \in SampleForests
  /\ probe = <<>>
  /\ noteId = "A"
  /\ loading = FALSE
  /\ latestNodesRef = nodes
  /\ activeNodeId = NoId
  /\ domFocus = NoId
  /\ saveTimer = <<>>
  /\ orphanTimers = {}
  /\ inflight = {}
  /\ issued = <<>>
  /\ orphanLoads = {}
  /\ metaFrom = NoNoteId
  /\ chat = ChatMounted
  /\ deleteInflight = {}
  /\ store = [n \in NoteIds |-> NoNote]
  /\ nextId = 1 + getTotalNodeCount(nodes)
  /\ network = "instant"

lawFrame == <<noteId, loading, nodes, latestNodesRef, activeNodeId, domFocus,
              saveTimer, nextId, orphanTimers, inflight, store, issued, network, orphanLoads, metaFrom,
              chat, deleteInflight>>

\* outdentNode(id) applied to indentNode(id)
ApplyIndentOutdent(id) ==
  /\ probe = <<>>
  /\ id \in AllIds(nodes)
  /\ probe' = [law |-> "indent-outdent", id |-> id,
               indented |-> indentNode(id, nodes),
               outdented |-> outdentNode(id, indentNode(id, nodes))]
  /\ UNCHANGED lawFrame

\* toggleCollapse's apply with collapsed = true, then with collapsed = false
ApplyCollapseExpand(id) ==
  /\ probe = <<>>
  /\ id \in AllIds(nodes)
  /\ probe' = [law |-> "collapse-expand", id |-> id,
               collapsed |-> setCollapsed(id, TRUE, nodes),
               expanded |-> setCollapsed(id, FALSE, setCollapsed(id, TRUE, nodes))]
  /\ UNCHANGED lawFrame

\* Enter in the rendered, childless node id with the caret at k, then
\* Backspace at the start of the node Enter created
ApplySplitMerge(id, k) ==
  /\ probe = <<>>
  /\ id \in VisibleIds(nodes)
  /\ childrenOf(nodes, id) = <<>>
  /\ k \in 0..Len(contentOf(nodes, id))
  /\ LET split == splitAtCaret(id, k, nextId, nodes)
         prev  == previousVisibleId(nextId, split)
     IN  probe' = [law |-> "split-merge", id |-> id, k |-> k,
                   split |-> split, prev |-> prev,
                   merged |-> IF prev = NoId THEN split
                              ELSE mergeIntoPrevious(nextId, prev, split)]
  /\ UNCHANGED lawFrame

NextLaws ==
  \/ \E id \in 1..MaxNodes : ApplyIndentOutdent(id)
  \/ \E id \in 1..MaxNodes : ApplyCollapseExpand(id)
  \/ \E id \in 1..MaxNodes, k \in 0..MaxSampleLen : ApplySplitMerge(id, k)

SpecLaws == InitLaws /\ [][NextLaws]_vars

(***************************************************************************)
(* SpecLoad: switching between the notes while loads are in flight; probe  *)
(* records how the load of the mounted editor ended and whether a response *)
(* for an unmounted editor has arrived since the last switch               *)
(***************************************************************************)
\* documents loadNote can find: those of StoredNotes and one with no roots
LoadableNotes == StoredNotes \cup {StoredNote(<<>>)}

InitLoad ==
  /\ noteId = "A"
  /\ loading = TRUE
  /\ nodes = <<>>
  /\ latestNodesRef = <<>>
  /\ activeNodeId = NoId
  /\ domFocus = NoId
  /\ saveTimer = <<>>
  /\ orphanTimers = {}
  /\ inflight = {}
  /\ issued = <<>>
  /\ orphanLoads = {}
  /\ metaFrom = NoNoteId
  /\ chat = ChatMounted
  /\ deleteInflight = {}
  /\ store \in [NoteIds -> LoadableNotes]
  /\ nextId = 1
  /\ network = "instant"
  /\ probe = [outcome |-> "none", stale |-> FALSE]

NextLoad ==
  \/ \E b \in NoteIds :
       SelectNote(b) /\ probe' = [outcome |-> "none", stale |-> FALSE]
  \/ LoadDone /\ probe' = [probe EXCEPT !.outcome = "resolved"]
  \/ LoadFailed /\ probe' = [probe EXCEPT !.outcome = "threw"]
  \/ \E l \in orphanLoads :
       OrphanLoadDone(l) /\ probe' = [probe EXCEPT !.stale = TRUE]

SpecLoad == InitLoad /\ [][NextLoad]_vars

(***************************************************************************)
(* SpecFail: the events of SpecAsync in front of a store that can reject a *)
(* save; probe records that a save has failed and that a content edit came *)
(* after the failure                                                       *)
(***************************************************************************)
InitFail ==
  /\ Mounted
  /\ network = "async"
  /\ probe = [failed |-> FALSE, editedAfter |-> FALSE]

NextFail ==
  \/ \E content \in TypedContents :
       Input(content) /\ probe' = [probe EXCEPT !.editedAfter = probe.failed]
  \/ (\E c \in NodeIds : ToggleCollapse(c)) /\ UNCHANGED probe
  \/ Blur /\ UNCHANGED probe
  \/ Tick /\ UNCHANGED probe
  \/ TimerFire /\ UNCHANGED probe
  \/ LoadDone /\ UNCHANGED probe
  \/ (\E r \in inflight : SaveDone(r)) /\ UNCHANGED probe
  \/ \E r \in inflight :
       SaveFail(r) /\ probe' = [failed |-> TRUE, editedAfter |-> FALSE]

SpecFail == InitFail /\ [][NextFail]_vars

(***************************************************************************)
(* SpecMerge: the Backspace merge applied to forests drawn from bounded    *)
(* sets, markup and collapsed subtrees included                            *)
(***************************************************************************)
\* contents with a tag next to white space or to a letter
MarkupContents == {<<" ", "<", "b", ">">>, <<"<", "b", ">", "a">>}

MergeForests ==
  UNION {ForestsOf(n, 1, {<<"a">>}, BOOLEAN) : n \in 2..MaxNodes}
  \cup UNION {ForestsOf(n, 1, SampleContents \cup MarkupContents, {FALSE}) :
                n \in 2..MaxSplitNodes}

InitMerge ==
  /\ nodes \in MergeForests
  /\ probe = <<>>
  /\ noteId = "A"
  /\ loading = FALSE
  /\ latestNodesRef = nodes
  /\ activeNodeId = NoId
  /\ domFocus = NoId
  /\ saveTimer = <<>>
  /\ orphanTimers = {}
  /\ inflight = {}
  /\ issued = <<>>
  /\ orphanLoads = {}
  /\ metaFrom = NoNoteId
  /\ chat = ChatMounted
  /\ deleteInflight = {}
  /\ store = [n \in NoteIds |-> NoNote]
  /\ nextId = 1 + getTotalNodeCount(nodes)
  /\ network = "instant"

\* Backspace with the caret at the start of the rendered node id
ApplyMerge(id) ==
  /\ probe = <<>>
  /\ id \in VisibleIds(nodes)
  /\ previousVisibleId(id, nodes) # NoId
  /\ LET prev == previousVisibleId(id, nodes)
     IN  probe' = [law |-> "merge", id |-> id, prev |-> prev,
                   merged |-> mergeIntoPrevious(id, prev, nodes)]
  /\ UNCHANGED lawFrame

NextMerge == \E id \in 1..MaxNodes : ApplyMerge(id)

SpecMerge == InitMerge /\ [][NextMerge]_vars

(***************************************************************************)
(* SpecOps: outdentNode, indentNode and the Enter split, each applied once *)
(* to the forests of SpecLaws                                              *)
(***************************************************************************)
ApplyOutdent(id) ==
  /\ probe = <<>>
  /\ id \in AllIds(nodes)
  /\ probe' = [law |-> "outdent", id |-> id, result |-> outdentNode(id, nodes)]
  /\ UNCHANGED lawFrame

ApplyIndent(id) ==
  /\ probe = <<>>
  /\ id \in AllIds(nodes)
  /\ probe' = [law |-> "indent", id |-> id, result |-> indentNode(id, nodes)]
  /\ UNCHANGED lawFrame

\* Enter in the rendered node id with the caret at k
ApplySplit(id, k) ==
  /\ probe = <<>>
  /\ id \in VisibleIds(nodes)
  /\ k \in 0..Len(contentOf(nodes, id))
  /\ probe' = [law |-> "split", id |-> id, k |-> k, newId |-> nextId,
               result |-> splitAtCaret(id, k, nextId, nodes)]
  /\ UNCHANGED lawFrame

NextOps ==
  \/ \E id \in 1..MaxNodes : ApplyOutdent(id)
  \/ \E id \in 1..MaxNodes : ApplyIndent(id)
  \/ \E id \in 1..MaxNodes, k \in 0..MaxSampleLen : ApplySplit(id, k)

SpecOps == InitLaws /\ [][NextOps]_vars

(***************************************************************************)
(* SpecMissing: the tree engine called with an id no node of the forest    *)
(* carries, each function applied once to the forests of SpecLaws          *)
(***************************************************************************)
MissingIds(forest) == (1..(MaxNodes + 1)) \ AllIds(forest)

MissingUpdate(id, content) ==
  /\ probe = <<>>
  /\ id \in MissingIds(nodes)
  /\ probe' = [law |-> "missing", op |-> "updateNodeContent", id |-> id,
               result |-> updateNodeContent(id, content, nodes)]
  /\ UNCHANGED lawFrame

MissingInsert(id) ==
  /\ probe = <<>>
  /\ id \in MissingIds(nodes)
  /\ probe' = [law |-> "missing", op |-> "insertAfterNode", id |-> id,
               result |-> insertAfterNode(id, NewNode(nextId, <<>>), nodes)]
  /\ UNCHANGED lawFrame

MissingDelete(id) ==
  /\ probe = <<>>
  /\ id \in MissingIds(nodes)
  /\ probe' = [law |-> "missing", op |-> "deleteNode", id |-> id,
               result |-> deleteNode(id, nodes)]
  /\ UNCHANGED lawFrame

MissingIndent(id) ==
  /\ probe = <<>>
  /\ id \in MissingIds(nodes)
  /\ probe' = [law |-> "missing", op |-> "indentNode", id |-> id,
               result |-> indentNode(id, nodes)]
  /\ UNCHANGED lawFrame

MissingOutdent(id) ==
  /\ probe = <<>>
  /\ id \in MissingIds(nodes)
  /\ probe' = [law |-> "missing", op |-> "outdentNode", id |-> id,
               result |-> outdentNode(id, nodes)]
  /\ UNCHANGED lawFrame

NextMissing ==
  \/ \E id \in 1..(MaxNodes + 1), c \in TypedContents : MissingUpdate(id, c)
  \/ \E id \in 1..(MaxNodes + 1) : MissingInsert(id)
  \/ \E id \in 1..(MaxNodes + 1) : MissingDelete(id)
  \/ \E id \in 1..(MaxNodes + 1) : MissingIndent(id)
  \/ \E id \in 1..(MaxNodes + 1) : MissingOutdent(id)

SpecMissing == InitLaws /\ [][NextMissing]_vars

(***************************************************************************)
(* SpecKeys: one key press in a rendered node of the forests of SpecLaws,  *)
(* with the selection the browser reports at that moment.  A selection is  *)
(* what getCaretOffsets returns: <<>> for null (no selection, or a range   *)
(* outside the element) or the offsets [start, end] into the plain text.   *)
(* The outcome of a press is the forest the handler sets, the node its     *)
(* requestAnimationFrame callback passes to focusNode (NoId when it calls  *)
(* none) and the atEnd argument of that call.                              *)
(***************************************************************************)
NoSelection == <<>>

\* the sampled contents carry no markup: a plain-text offset is also the
\* offset into the html
Selections(content) ==
  {NoSelection} \cup
  {off \in [start : 0..Len(toPlain(content)), end : 0..Len(toPlain(content))] :
     off.start <= off.end}

\* isAtStart_nullIsStart: isAtStart that takes a missing selection for offset 0
isAtStart_nullIsStart(off) ==
  \/ off = NoSelection
  \/ off.start = 0 /\ off.start = off.end

isAtStart(off) ==
  IF off = NoSelection THEN FALSE
  ELSE off.start = 0 /\ off.start = off.end

isAtEnd(off, total) ==
  IF off = NoSelection THEN FALSE
  ELSE off.end = total /\ off.start = off.end

\* what one run of handleKeyDown leaves behind
Outcome(forest, target, atEnd) ==
  [nodes |-> forest, focus |-> target, atEnd |-> atEnd]

\* the caret offset setCaret(el, atEnd) gives in the plain text of target
setCaret(forest, target, atEnd) ==
  IF atEnd THEN Len(toPlain(contentOf(forest, target))) ELSE 0

\* Enter: newBulletAtCaret, which returns early without a range inside el
keyEnter(nodeId, off, newId, forest) ==
  IF off = NoSelection THEN Outcome(forest, NoId, FALSE)
  ELSE Outcome(splitAtCaret(nodeId, off.start, newId, forest), newId, FALSE)

\* Backspace: merge, else delete of a blank bullet, else the native key
keyBackspace(nodeId, off, forest) ==
  LET prevId == previousVisibleId(nodeId, forest)
  IN  IF isAtStart(off) /\ prevId # NoId
      THEN Outcome(mergeIntoPrevious(nodeId, prevId, forest), prevId, TRUE)
      ELSE IF isBlank(toPlain(contentOf(forest, nodeId))) /\ getTotalNodeCount(forest) > 1
           THEN LET flatBefore   == flattenVisibleNodes(forest)
                    currentIndex == findIndex(flatBefore, nodeId)
                    updatedNodes == deleteNode(nodeId, forest)
                    flatAfter    == flattenVisibleNodes(updatedNodes)
                    wanted       == IF currentIndex - 1 >= 1 THEN currentIndex - 1 ELSE 1
                    targetIdx    == IF wanted > Len(flatAfter) THEN Len(flatAfter) ELSE wanted
                IN  Outcome(updatedNodes,
                            IF targetIdx >= 1 THEN flatAfter[targetIdx].id ELSE NoId,
                            TRUE)
           ELSE Outcome(forest, NoId, FALSE)

\* ArrowUp without Shift
keyArrowUp(nodeId, off, forest) ==
  LET flat  == flattenVisibleNodes(forest)
      index == findIndex(flat, nodeId)
  IN  IF isAtStart(off) /\ index > 1
      THEN Outcome(forest, flat[index - 1].id, TRUE)
      ELSE Outcome(forest, NoId, FALSE)

\* ArrowDown without Shift
keyArrowDown(nodeId, off, forest) ==
  LET flat  == flattenVisibleNodes(forest)
      index == findIndex(flat, nodeId)
      total == Len(toPlain(contentOf(forest, nodeId)))
  IN  IF isAtEnd(off, total) /\ index # 0 /\ index < Len(flat)
      THEN Outcome(forest, flat[index + 1].id, TRUE)
      ELSE Outcome(forest, NoId, FALSE)

Press(key, id, off, outcome) ==
  /\ probe = <<>>
  /\ id \in VisibleIds(nodes)
  /\ off \in Selections(contentOf(nodes, id))
  /\ probe' = [law |-> "key", key |-> key, id |-> id, off |-> off,
               result |-> outcome.nodes, focus |-> outcome.focus,
               caret |-> IF outcome.focus = NoId THEN NoSelection
                         ELSE LET at == setCaret(outcome.nodes, outcome.focus,
                                                  outcome.atEnd)
                              IN  [start |-> at, end |-> at]]
  /\ UNCHANGED lawFrame

AnySelection ==
  {NoSelection} \cup [start : 0..MaxSampleLen, end : 0..MaxSampleLen]

NextKeys ==
  \/ \E id \in 1..MaxNodes, off \in AnySelection :
       Press("Enter", id, off, keyEnter(id, off, nextId, nodes))
  \/ \E id \in 1..MaxNodes, off \in AnySelection :
       Press("Backspace", id, off, keyBackspace(id, off, nodes))
  \/ \E id \in 1..MaxNodes, off \in AnySelection :
       Press("ArrowUp", id, off, keyArrowUp(id, off, nodes))
  \/ \E id \in 1..MaxNodes, off \in AnySelection :
       Press("ArrowDown", id, off, keyArrowDown(id, off, nodes))

SpecKeys == InitLaws /\ [][NextKeys]_vars

(***************************************************************************)
(* SpecCollapse: collapse toggles, clicks into text surfaces and blur on   *)
(* forests of up to MaxNodes expanded nodes; probe holds what the last     *)
(* toggle was applied to                                                   *)
(***************************************************************************)
InitCollapse ==
  /\ nodes \in UNION {ForestsOf(n, 1, {<<"a">>}, {FALSE}) : n \in 1..MaxNodes}
  /\ probe = <<>>
  /\ noteId = "A"
  /\ loading = FALSE
  /\ latestNodesRef = nodes
  \* the auto-focus effect after a load
  /\ activeNodeId = nodes[1].id
  /\ domFocus = nodes[1].id
  /\ saveTimer = <<>>
  /\ orphanTimers = {}
  /\ inflight = {}
  /\ issued = <<>>
  /\ orphanLoads = {}
  /\ metaFrom = "A"
  /\ chat = ChatMounted
  /\ deleteInflight = {}
  /\ store = [n \in NoteIds |-> IF n = "A" THEN StoredNote(nodes) ELSE NoNote]
  /\ nextId = 1 + getTotalNodeCount(nodes)
  /\ network = "instant"

NextCollapse ==
  \/ \E c \in 1..MaxNodes :
       /\ ToggleCollapse(c)
       /\ probe' = [c |-> c, willCollapse |-> ~collapsedIn(nodes, c),
                    active |-> activeNodeId, forest |-> nodes]
  \/ (\E id \in 1..MaxNodes : Focus(id)) /\ probe' = <<>>
  \/ Blur /\ probe' = <<>>

SpecCollapse == InitCollapse /\ [][NextCollapse]_vars

(***************************************************************************)
(* SpecChat: the AI sidebar.  sendMessage runs up to its await in one      *)
(* step; the reply (or the rejection) of the fetch is a later step.  Home  *)
(* unmounts the sidebar when showRight goes false: its state is lost and   *)
(* the continuation of a fetch in flight then sets no mounted state.       *)
(* probe counts, for the mounted sidebar, the calls sendMessage accepted,  *)
(* the calls it ignored and the requests that have settled.                *)
(***************************************************************************)
chatFrame == <<noteId, loading, nodes, latestNodesRef, activeNodeId, domFocus,
               saveTimer, nextId, orphanTimers, inflight, store, issued, network,
               orphanLoads, metaFrom, deleteInflight>>

NoCounts == [accepted |-> 0, settled |-> 0, ignored |-> 0, last |-> <<>>]

LiveRequests == {r \in chat.requests : r.live}

\* sendMessage(content) up to `await fetch`
sendMessage(content) ==
  /\ chat.shown
  /\ IF isBlank(content) \/ chat.isLoading
     THEN /\ probe.ignored < MaxIgnored
          /\ chat' = chat
          /\ probe' = [probe EXCEPT !.ignored = @ + 1]
     ELSE /\ Len(chat.messages) + 2 <= MaxChat
          /\ chat' = [chat EXCEPT
               !.messages = Append(@, [role |-> "user", content |-> content]),
               !.isLoading = TRUE,
               !.requests = @ \cup {[k |-> Cardinality(chat.requests) + 1,
                                     live |-> TRUE]}]
          /\ probe' = [probe EXCEPT !.accepted = @ + 1]
  /\ UNCHANGED chatFrame

\* the continuation after the await, with the assistant message it builds;
\* for an unmounted sidebar the setMessages and setIsLoading set nothing
settle(r, ok, text) ==
  /\ r \in chat.requests
  /\ IF r.live
     THEN /\ chat' = [chat EXCEPT
               !.messages = Append(@, [role |-> "assistant", content |-> text]),
               !.isLoading = FALSE,
               !.requests = @ \ {r}]
          /\ probe' = [probe EXCEPT !.settled = @ + 1,
                                    !.last = [ok |-> ok, text |-> text]]
     ELSE /\ chat' = [chat EXCEPT !.requests = @ \ {r}]
          /\ probe' = probe
  /\ UNCHANGED chatFrame

\* response.ok and response.json() resolves
ReplyOk(r, text) == settle(r, TRUE, text)

\* a catch block that only logs
ReplyFail_logsOnly(r) ==
  /\ r \in chat.requests
  /\ chat' = [chat EXCEPT !.isLoading = IF r.live THEN FALSE ELSE @,
                          !.requests = @ \ {r}]
  /\ probe' = IF r.live
              THEN [probe EXCEPT !.settled = @ + 1,
                                 !.last = [ok |-> FALSE, text |-> ErrorText]]
              ELSE probe
  /\ UNCHANGED chatFrame

\* fetch rejects, the status is not OK, or response.json() rejects: catch
ReplyFail(r) == settle(r, FALSE, ErrorText)

\* Home: showRight goes false (toggle, or a window narrower than 768 px)
HideSidebar ==
  /\ chat.shown
  /\ Cardinality(chat.requests) <= MaxStaleReplies
  /\ chat' = [shown |-> FALSE, messages |-> <<>>, isLoading |-> FALSE,
              requests |-> {[r EXCEPT !.live = FALSE] : r \in chat.requests}]
  /\ probe' = NoCounts
  /\ UNCHANGED chatFrame

\* Home: showRight goes true, AISidebar mounts with its initial state
ShowSidebar ==
  /\ ~chat.shown
  /\ chat' = [chat EXCEPT !.shown = TRUE]
  /\ probe' = NoCounts
  /\ UNCHANGED chatFrame

InitChat ==
  /\ Mounted
  /\ network = "instant"
  /\ probe = NoCounts

NextChat ==
  \/ \E content \in TypedContents : sendMessage(content)
  \/ \E r \in chat.requests, text \in ReplyTexts : ReplyOk(r, text)
  \/ \E r \in chat.requests : ReplyFail(r)
  \/ HideSidebar
  \/ ShowSidebar

SpecChat == InitChat /\ [][NextChat]_vars

(***************************************************************************)
(* SpecDelete: typing, focus changes, the debounce timer and the "Delete   *)
(* note" button; the store answers saves within the turn.  probe holds the *)
(* outcome of the last step when it was the answer to a deleteNote, the    *)
(* editor as it was before that answer, and the ids of the forest that the *)
(* last successful delete removed.                                         *)
(***************************************************************************)
NoDelete == [outcome |-> "none", before |-> <<>>, deletedIds |-> {}]

Shown == [nodes |-> nodes, metaFrom |-> metaFrom, store |-> store]

InitDelete ==
  /\ Mounted
  /\ network = "instant"
  /\ probe = NoDelete

Seen == [probe EXCEPT !.outcome = "none", !.before = <<>>]

NextDelete ==
  \/ (\E content \in TypedContents : Input(content)) /\ probe' = Seen
  \/ (\E id \in NodeIds : Focus(id)) /\ probe' = Seen
  \/ Blur /\ probe' = Seen
  \/ Tick /\ probe' = Seen
  \/ TimerFire /\ probe' = Seen
  \/ LoadDone /\ probe' = Seen
  \/ (\E blurs \in BOOLEAN : DeleteClick(blurs)) /\ probe' = Seen
  \/ \E d \in deleteInflight :
       /\ DeleteDone(d)
       /\ probe' = [outcome |-> "deleted", before |-> Shown,
                    deletedIds |-> AllIds(nodes)]
  \/ \E d \in deleteInflight :
       /\ DeleteFailed(d)
       /\ probe' = [probe EXCEPT !.outcome = "failed", !.before = Shown]

SpecDelete == InitDelete /\ [][NextDelete]_vars

(***************************************************************************)
(* Properties                                                              *)
(***************************************************************************)
parentOf(forest, id) == findParentId(forest, id, NoId)

siblingsOf(forest, id) ==
  IF parentOf(forest, id) = NoId THEN forest
  ELSE childrenOf(forest, parentOf(forest, id))

indexAmongSiblings(forest, id) == findIndex(siblingsOf(forest, id), id)

hasPreviousSibling(forest, id) == indexAmongSiblings(forest, id) > 1

\* id has the same parent and the same index among its siblings in f and g
SamePlace(f, g, id) ==
  /\ parentOf(f, id) = parentOf(g, id)
  /\ indexAmongSiblings(f, id) = indexAmongSiblings(g, id)

SameShape(f, g) ==
  /\ AllIds(f) = AllIds(g)
  /\ \A id \in AllIds(f) : SamePlace(f, g, id)

collapsedOf(forest, id) ==
  LET n == findNodeById(forest, id)
  IN  IF n = <<>> THEN FALSE ELSE n[1].collapsed

descendantIds(forest, id) == AllIds(childrenOf(forest, id))

Law(name) == probe # <<>> /\ probe.law = name

\* C1: once the note is loaded, the forest's total node count, counted at
\* every depth, is never 0, whatever editor operations have been applied.
NeverEmpty == ~loading => getTotalNodeCount(nodes) > 0

\* C2: every editor operation on a loaded forest leaves the ids pairwise
\* distinct; the only id that can appear is the one of the node the operation
\* creates, the only ids that can disappear are those of the focused node and
\* its subtree, and a node that stays keeps its id with its content unless it
\* is the focused node or the node before it in the visible order.
IdsStayDistinct ==
  [][~loading =>
       /\ NoDuplicateIds(nodes')
       /\ AllIds(nodes') \subseteq AllIds(nodes) \cup {nextId}
       /\ \A id \in AllIds(nodes) \ AllIds(nodes') :
            id = domFocus \/ isDescendant(nodes, domFocus, id)
       /\ \A id \in AllIds(nodes) \cap AllIds(nodes') :
            contentOf(nodes', id) # contentOf(nodes, id)
              => id \in {domFocus, previousVisibleId(domFocus, nodes)}]_vars

\* a node was created and a node was deleted, and two or more nodes remain
CreatedAndDeleted ==
  /\ ~loading
  /\ getTotalNodeCount(nodes) >= 2
  /\ nextId > 1 + getTotalNodeCount(nodes)

\* C3: for a node with a previous sibling, indentNode puts it under that
\* sibling and outdentNode of the result gives a forest of the same shape as
\* the original: every node has the parent and the sibling index it had.
OutdentUndoesIndent ==
  (Law("indent-outdent") /\ hasPreviousSibling(nodes, probe.id)) =>
     /\ parentOf(probe.indented, probe.id)
          = siblingsOf(nodes, probe.id)[indexAmongSiblings(nodes, probe.id) - 1].id
     /\ SameShape(nodes, probe.outdented)

\* a nested node with children and a previous sibling went through the law
NestedIndentOutdent ==
  /\ Law("indent-outdent")
  /\ hasPreviousSibling(nodes, probe.id)
  /\ parentOf(nodes, probe.id) # NoId
  /\ childrenOf(nodes, probe.id) # <<>>
  /\ probe.indented # nodes

\* C4 as stated: splitting a childless node at k and merging the new node
\* back gives the forest there was before the split, contents included.
SplitMergeRestoresForest == Law("split-merge") => probe.merged = nodes

\* the content the merge leaves in the node: the original, with one space at
\* k when the characters on both sides of k are not white space
joinedContent(c, k) ==
  IF k >= 1 /\ k < Len(c) /\ ~IsSpace(c[k]) /\ ~IsSpace(c[k + 1])
  THEN SubSeq(c, 1, k) \o <<" ">> \o SubSeq(c, k + 1, Len(c))
  ELSE c

\* C4: for a childless node with plain-text content, splitting at k and
\* merging the new node back leaves the same nodes in the same places with
\* their collapsed flags and contents, except that the node's content has one
\* space inserted at k when the characters before and after k are both not
\* white space.
SplitMergeRestoresUpToSpace ==
  Law("split-merge") =>
     /\ probe.prev = probe.id
     /\ SameShape(nodes, probe.merged)
     /\ \A id \in AllIds(nodes) :
          /\ collapsedOf(probe.merged, id) = collapsedOf(nodes, id)
          /\ contentOf(probe.merged, id)
               = IF id = probe.id
                 THEN joinedContent(contentOf(nodes, id), probe.k)
                 ELSE contentOf(nodes, id)

\* "aa" was split in the middle and merged back
SplitBetweenLetters ==
  /\ Law("split-merge")
  /\ contentOf(nodes, probe.id) = <<"a", "a">>
  /\ probe.k = 1
  /\ contentOf(probe.split, probe.id) = <<"a">>
  /\ contentOf(probe.merged, probe.id) = <<"a", " ", "a">>

DebounceCoalesces ==
  probe.edits >= 1 =>
     /\ probe.close =>
          IF saveTimer # <<>>
          THEN probe.saves = 0
          ELSE /\ probe.saves = 1
               /\ probe.last = <<SaveRequest(noteId, nodes)>>
               /\ probe.sinceEdit >= DebounceMs
     /\ probe.far =>
          probe.saves = probe.edits - (IF saveTimer # <<>> THEN 1 ELSE 0)

\* two or more edits in quick succession, and the timer has fired
BurstSavedOnce ==
  /\ probe.edits >= 2
  /\ probe.close
  /\ saveTimer = <<>>
  /\ probe.saves = 1

\* C7 as stated: the save the debounce timer issues when it fires carries the
\* forest the editor holds at that moment.
TimerSavesLatestForest ==
  [][TimerFire => issued' = <<SaveRequest(noteId, nodes)>>]_vars

\* C8: when a text surface that stays rendered loses focus, no timer is
\* pending afterwards; if one was pending the step issues exactly one save,
\* carrying the forest the editor holds, and if none was pending it issues no
\* save.
BlurFlushesPendingSave ==
  [][(/\ domFocus # NoId
      /\ domFocus' # domFocus
      /\ noteId' = noteId
      /\ ElementKept(nodes, nodes', domFocus)) =>
       /\ saveTimer' = <<>>
       /\ issued' = IF saveTimer # <<>>
                    THEN <<SaveRequest(noteId, nodes')>> ELSE <<>>]_vars

\* focus has left the editor and the step flushed the forest
BlurredAndFlushed ==
  /\ ~loading
  /\ domFocus = NoId
  /\ activeNodeId # NoId
  /\ saveTimer = <<>>
  /\ issued = <<SaveRequest(noteId, nodes)>>
  /\ store[noteId] = StoredNote(nodes)

\* C9 as stated: leaving a note while a debounced save is pending issues a
\* save of the latest forest for the note being left, and no timer of the
\* unmounted editor remains.
UnmountFlushesPendingSave ==
  [][(noteId' # noteId /\ saveTimer # <<>>) =>
       /\ issued' = <<SaveRequest(noteId, latestNodesRef)>>
       /\ orphanTimers' = {}]_vars

\* C10 as stated: once no timer is pending and every save has completed, the
\* forest the store holds for the open note is the forest the editor holds.
StoreMatchesEditorWhenQuiet ==
  (/\ ~loading
   /\ saveTimer = <<>>
   /\ orphanTimers = {}
   /\ inflight = {}
   /\ store[noteId].exists) =>
     store[noteId].rootNodes = nodes

\* what loadNoteData shows for a document: its roots, or one blank node
ShowsNote(forest, note) ==
  IF note.exists /\ Len(note.rootNodes) > 0
  THEN forest = note.rootNodes
  ELSE /\ Len(forest) = 1
       /\ forest[1].content = <<>>
       /\ forest[1].children = <<>>

\* C11: a load response that arrives for an editor the user has switched
\* away from changes nothing the mounted editor shows (forest, focus, title,
\* tags, notebook), and once the load of the selected note has resolved the
\* editor shows that note's forest and that note's title, tags and notebook,
\* in whichever order the responses arrive.
StaleLoadNeverApplied ==
  [][/\ (\E l \in orphanLoads : orphanLoads' = orphanLoads \ {l}) =>
          UNCHANGED <<noteId, loading, nodes, latestNodesRef, activeNodeId,
                      domFocus, metaFrom>>
     /\ (~loading' /\ probe'.outcome = "resolved") =>
          /\ ShowsNote(nodes', store[noteId'])
          /\ metaFrom' \in {noteId', NoNoteId}]_vars

\* note "B" is shown, loaded, and a response for an unmounted editor has
\* arrived since the user switched to it; the two notes differ
StaleResponseArrived ==
  /\ noteId = "B"
  /\ ~loading
  /\ probe.stale
  /\ probe.outcome = "resolved"
  /\ store["A"].rootNodes # <<>>
  /\ store["B"].rootNodes # <<>>
  /\ store["A"] # store["B"]
  /\ nodes = store["B"].rootNodes
  /\ metaFrom = "B"

\* C12: after loadNoteData completes the forest has at least one node: the
\* stored roots when the document exists with one or more roots, and
\* otherwise (missing document, document with no roots, loadNote threw) one
\* node with empty content and no children, with the initial title, tags and
\* notebook.
LoadAlwaysGivesANode ==
  ~loading =>
     /\ getTotalNodeCount(nodes) >= 1
     /\ LET note  == store[noteId]
            found == note.exists /\ Len(note.rootNodes) > 0
        IN  IF probe.outcome = "resolved" /\ found
            THEN nodes = note.rootNodes /\ metaFrom = noteId
            ELSE /\ Len(nodes) = 1
                 /\ nodes[1].content = <<>>
                 /\ nodes[1].children = <<>>
                 /\ ~nodes[1].collapsed
                 /\ metaFrom = NoNoteId

\* loadNote threw although the document is stored with roots
LoadThrewOnStoredNote ==
  /\ ~loading
  /\ probe.outcome = "threw"
  /\ store[noteId].rootNodes # <<>>
  /\ Len(nodes) = 1

\* C13: a save that fails leaves the forest, the focus and the pending timer
\* as they were and sends nothing again; a content edit made after a failure
\* still schedules a debounced save of the forest as the edit left it.
SaveFailureLeavesEditorIntact ==
  [][/\ (probe'.failed /\ ~probe'.editedAfter /\ probe' # probe) =>
          /\ UNCHANGED <<nodes, latestNodesRef, activeNodeId, domFocus, saveTimer,
                         loading, store>>
          /\ issued' = <<>>
          /\ inflight' \subseteq inflight
     /\ (/\ probe.failed
         /\ domFocus # NoId
         /\ contentOf(nodes', domFocus) # contentOf(nodes, domFocus)) =>
          saveTimer' = <<[data |-> nodes', left |-> DebounceMs]>>]_vars

\* a save has failed and an edit after it has its debounced save pending
EditedAfterFailedSave ==
  /\ probe.failed
  /\ probe.editedAfter
  /\ saveTimer = <<[data |-> nodes, left |-> DebounceMs]>>
  /\ store[noteId].rootNodes # nodes

documentPrevious(forest, id) ==
  LET all == IdSeq(flattenAll(forest))
      j   == CHOOSE j \in 1..Len(all) : all[j] = id
  IN  IF j > 1 THEN all[j - 1] ELSE NoId

\* s without the entries equal to x
without(s, x) == SelectSeq(s, LAMBDA e : e # x)

\* C15 as stated: the merge goes into the node just before n in the
\* depth-first order of the whole forest, collapsed subtrees included.
MergeTargetIsDocumentPrevious ==
  Law("merge") => probe.prev = documentPrevious(nodes, probe.id)

\* C15: Backspace at the start of a rendered node n merges n's content into
\* the node just before n in the visible order (depth-first, children of
\* collapsed nodes left out); that node is the one just before n in the
\* depth-first order of the whole forest unless the latter is hidden, and
\* then it is a collapsed ancestor of the hidden node.
MergeTargetIsVisiblePrevious ==
  Law("merge") =>
     LET flat == IdSeq(flattenVisibleNodes(nodes))
         i    == CHOOSE i \in 1..Len(flat) : flat[i] = probe.id
         doc  == documentPrevious(nodes, probe.id)
         prevC == contentOf(nodes, probe.prev)
         currC == contentOf(nodes, probe.id)
         got   == contentOf(probe.merged, probe.prev)
     IN  /\ i > 1
         /\ probe.prev = flat[i - 1]
         /\ SubSeq(got, 1, Len(prevC)) = prevC
         /\ SubSeq(got, Len(got) - Len(currC) + 1, Len(got)) = currC
         /\ \/ probe.prev = doc
            \/ /\ doc \notin VisibleIds(nodes)
               /\ isDescendant(nodes, probe.prev, doc)
               /\ collapsedOf(nodes, probe.prev)

\* the node before n in document order is hidden in a collapsed subtree
MergedPastCollapsedSubtree ==
  /\ Law("merge")
  /\ documentPrevious(nodes, probe.id) \notin VisibleIds(nodes)
  /\ collapsedOf(nodes, probe.prev)
  /\ probe.prev # documentPrevious(nodes, probe.id)

\* C16: a merge of n into p removes exactly n and no other node; the children
\* of n become the last children of p, after the children p keeps, in their
\* order and with their subtrees; every other node keeps its parent, and the
\* order among the children of every node but p stays as it was.
MergeRemovesOnlyTheNode ==
  Law("merge") =>
     LET n    == probe.id
         p    == probe.prev
         kids == IdSeq(childrenOf(nodes, n))
     IN  /\ AllIds(probe.merged) = AllIds(nodes) \ {n}
         /\ NoDuplicateIds(probe.merged)
         /\ IdSeq(childrenOf(probe.merged, p))
              = without(IdSeq(childrenOf(nodes, p)), n) \o kids
         /\ \A c \in Range(kids) :
              findNodeById(probe.merged, c) = findNodeById(nodes, c)
         /\ IdSeq(probe.merged) = without(IdSeq(nodes), n)
         /\ \A q \in AllIds(nodes) \ {n, p} :
              /\ IdSeq(childrenOf(probe.merged, q))
                   = without(IdSeq(childrenOf(nodes, q)), n)
              /\ q \notin Range(kids) =>
                   parentOf(probe.merged, q) = parentOf(nodes, q)

\* n is the first child of p, has a child of its own and a sibling after it
MergedFirstChildIntoParent ==
  /\ Law("merge")
  /\ parentOf(nodes, probe.id) = probe.prev
  /\ childrenOf(nodes, probe.id) # <<>>
  /\ Len(childrenOf(nodes, probe.prev)) >= 2
  /\ Len(childrenOf(probe.merged, probe.prev)) = 2

\* C17: the content a merge writes into the previous node is the previous
\* content, then one space exactly when the previous content with its tags
\* removed ends with a character that is not white space and the current
\* content with its tags removed starts with one, then the current content.
MergeSpaceRule ==
  Law("merge") =>
     LET prevC == contentOf(nodes, probe.prev)
         currC == contentOf(nodes, probe.id)
         pp    == toPlain(prevC)
         cp    == toPlain(currC)
         space == /\ pp # <<>> /\ pp[Len(pp)] # " "
                  /\ cp # <<>> /\ cp[1] # " "
     IN  contentOf(probe.merged, probe.prev)
           = prevC \o (IF space THEN <<" ">> ELSE <<>>) \o currC

\* "a" merged with "a" gave "a a"
MergedTwoWords ==
  /\ Law("merge")
  /\ contentOf(nodes, probe.prev) = <<"a">>
  /\ contentOf(nodes, probe.id) = <<"a">>
  /\ contentOf(probe.merged, probe.prev) = <<"a", " ", "a">>

\* s with y put right after its entry x
withAfter(s, x, y) ==
  LET i == CHOOSE i \in 1..Len(s) : s[i] = x
  IN  SubSeq(s, 1, i) \o <<y>> \o SubSeq(s, i + 1, Len(s))

\* what a node is apart from its place: its fields and the ids of its children
nodeView(forest, id) ==
  LET n == findNodeById(forest, id)[1]
  IN  [content |-> n.content, collapsed |-> n.collapsed,
       isChecklist |-> n.isChecklist, checked |-> n.checked,
       kids |-> IdSeq(n.children)]

\* the ids of the level under parent q, the roots for NoId
levelIds(forest, q) ==
  IF q = NoId THEN IdSeq(forest) ELSE IdSeq(childrenOf(forest, q))

\* C18: outdentNode of a node n with parent q takes n out of q's children and
\* puts it right after q at q's level, with n's subtree as it was; the other
\* children of q stay under q in their order and every other node is as it
\* was; outdentNode of a root gives the forest unchanged.
OutdentMovesAfterParent ==
  Law("outdent") =>
     LET n == probe.id
         q == parentOf(nodes, n)
         g == parentOf(nodes, q)
         r == probe.result
     IN  IF q = NoId
         THEN r = nodes
         ELSE /\ AllIds(r) = AllIds(nodes)
              /\ NoDuplicateIds(r)
              /\ levelIds(r, g) = withAfter(levelIds(nodes, g), q, n)
              /\ levelIds(r, q) = without(levelIds(nodes, q), n)
              /\ findNodeById(r, n) = findNodeById(nodes, n)
              /\ \A j \in AllIds(nodes) \ {q, g} : nodeView(r, j) = nodeView(nodes, j)
              /\ nodeView(r, q).content = nodeView(nodes, q).content
              /\ nodeView(r, q).collapsed = nodeView(nodes, q).collapsed

\* a node with a child of its own and a sibling after it was outdented
OutdentedMiddleChild ==
  /\ Law("outdent")
  /\ parentOf(nodes, probe.id) # NoId
  /\ childrenOf(nodes, probe.id) # <<>>
  /\ indexAmongSiblings(nodes, probe.id) < Len(siblingsOf(nodes, probe.id))
  /\ probe.result # nodes

\* C19: indentNode of a node n with a previous sibling p makes n the last
\* child of p, after the children p had, with n's subtree as it was, and
\* leaves every other node as it was; indentNode of a node that is first at
\* its level gives a forest equal to the input.
IndentMovesUnderPreviousSibling ==
  Law("indent") =>
     LET n   == probe.id
         q   == parentOf(nodes, n)
         lvl == levelIds(nodes, q)
         i   == indexAmongSiblings(nodes, n)
         r   == probe.result
     IN  IF i = 1
         THEN r = nodes
         ELSE LET p == lvl[i - 1]
              IN  /\ AllIds(r) = AllIds(nodes)
                  /\ NoDuplicateIds(r)
                  /\ levelIds(r, p) = levelIds(nodes, p) \o <<n>>
                  /\ levelIds(r, q) = without(lvl, n)
                  /\ findNodeById(r, n) = findNodeById(nodes, n)
                  /\ \A j \in AllIds(nodes) \ {p, q} :
                       nodeView(r, j) = nodeView(nodes, j)
                  /\ nodeView(r, p).content = nodeView(nodes, p).content
                  /\ nodeView(r, p).collapsed = nodeView(nodes, p).collapsed

\* a nested node with a child went under a previous sibling that had a child
IndentedUnderSiblingWithChild ==
  /\ Law("indent")
  /\ hasPreviousSibling(nodes, probe.id)
  /\ childrenOf(nodes, siblingsOf(nodes, probe.id)
                         [indexAmongSiblings(nodes, probe.id) - 1].id) # <<>>
  /\ probe.result # nodes

\* C20: Enter in node n with the caret at k keeps the first k characters in
\* n, creates one node with an id not in the forest, holding the rest, with
\* no children, right after n at n's level, leaves n's children under n and
\* leaves every other node as it was.
SplitKeepsHeadAddsSibling ==
  Law("split") =>
     LET n    == probe.id
         new  == probe.newId
         q    == parentOf(nodes, n)
         r    == probe.result
         html == contentOf(nodes, n)
     IN  /\ new \notin AllIds(nodes)
         /\ AllIds(r) = AllIds(nodes) \cup {new}
         /\ NoDuplicateIds(r)
         /\ contentOf(r, n) = SubSeq(html, 1, probe.k)
         /\ findNodeById(r, new)
              = <<NewNode(new, SubSeq(html, probe.k + 1, Len(html)))>>
         /\ levelIds(r, q) = withAfter(levelIds(nodes, q), n, new)
         /\ childrenOf(r, n) = childrenOf(nodes, n)
         /\ nodeView(r, n).collapsed = nodeView(nodes, n).collapsed
         /\ \A j \in AllIds(nodes) \ {n, q} : nodeView(r, j) = nodeView(nodes, j)
         /\ q # NoId =>
              /\ nodeView(r, q).content = nodeView(nodes, q).content
              /\ nodeView(r, q).collapsed = nodeView(nodes, q).collapsed

\* a node with children and a sibling after it was split
SplitNodeWithChildren ==
  /\ Law("split")
  /\ childrenOf(nodes, probe.id) # <<>>
  /\ indexAmongSiblings(nodes, probe.id) < Len(siblingsOf(nodes, probe.id))
  /\ probe.k = 1
  /\ contentOf(probe.result, probe.newId) = <<>>


(***************************************************************************)
(* C21: updateNodeContent, insertAfterNode, deleteNode, indentNode and     *)
(* outdentNode, called with an id that no node of the forest carries,      *)
(* return a forest equal to their input: the same nodes in the same order  *)
(* with the same fields.                                                   *)
(***************************************************************************)
MissingIdLeavesForest ==
  Law("missing") => probe.result = nodes

\* insertAfterNode was called on a nested forest with an id it does not hold
MissingIdOnNestedForest ==
  /\ Law("missing")
  /\ probe.op = "insertAfterNode"
  /\ \E i \in 1..Len(nodes) : nodes[i].children # <<>>
  /\ Len(nodes) > 1
  /\ probe.result = nodes

\* ids and contents of a forest, as a function from id to content
contentsOf(forest) == [id \in AllIds(forest) |-> contentOf(forest, id)]

Pressed(key) == Law("key") /\ probe.key = key

(***************************************************************************)
(* C22 as stated: with no selection mapped into the node's text surface,   *)
(* neither Enter nor Backspace changes the forest's node set or any node's *)
(* content.                                                                *)
(***************************************************************************)
UnmappedCaretKeepsNodeSet ==
  Law("key") /\ probe.key \in {"Enter", "Backspace"} /\ probe.off = NoSelection
    => contentsOf(probe.result) = contentsOf(nodes)

(***************************************************************************)
(* C22: with no selection mapped into the node's text surface, Enter       *)
(* performs no split and leaves the forest as it is; Backspace performs no *)
(* merge: it leaves the forest as it is, except on a node whose text is    *)
(* blank while the forest has more than one node, which it deletes with    *)
(* its subtree, changing no remaining node.                                *)
(***************************************************************************)
UnmappedCaretNoSplitNoMerge ==
  Law("key") /\ probe.key \in {"Enter", "Backspace"} /\ probe.off = NoSelection
    => IF /\ probe.key = "Backspace"
          /\ isBlank(toPlain(contentOf(nodes, probe.id)))
          /\ Cardinality(AllIds(nodes)) > 1
       THEN /\ AllIds(probe.result) =
                 AllIds(nodes) \ ({probe.id} \cup descendantIds(nodes, probe.id))
            /\ \A id \in AllIds(probe.result) :
                 nodeView(probe.result, id) = nodeView(nodes, id)
                 \/ id = parentOf(nodes, probe.id)
            /\ \A id \in AllIds(probe.result) :
                 contentOf(probe.result, id) = contentOf(nodes, id)
       ELSE probe.result = nodes

\* Backspace without a mapped selection in a node with text that has a
\* previous visible node: a caret at offset 0 would have merged the two
UnmappedBackspaceBeforeMergeableNode ==
  /\ Pressed("Backspace")
  /\ probe.off = NoSelection
  /\ contentOf(nodes, probe.id) = <<"a">>
  /\ previousVisibleId(probe.id, nodes) # NoId
  /\ childrenOf(nodes, probe.id) # <<>>
  /\ probe.result = nodes

(***************************************************************************)
(* C23: toggling node c to collapsed while the active node is a descendant *)
(* of c, at any depth, makes c the active node; toggling c while the       *)
(* active node is not one of its descendants, or toggling c to expanded,   *)
(* leaves the active node as it was.                                       *)
(***************************************************************************)
CollapseMovesActiveNode ==
  probe # <<>> =>
    activeNodeId = IF /\ probe.willCollapse
                      /\ probe.active \in descendantIds(probe.forest, probe.c)
                   THEN probe.c
                   ELSE probe.active

\* a root was collapsed while its grandchild was the active node
CollapsedOverActiveGrandchild ==
  /\ probe # <<>>
  /\ probe.willCollapse
  /\ parentOf(probe.forest, probe.c) = NoId
  /\ parentOf(probe.forest, parentOf(probe.forest, probe.active)) = probe.c
  /\ activeNodeId = probe.c
  /\ collapsedOf(nodes, probe.c)

(***************************************************************************)
(* C24: every sendMessage call the sidebar accepts appends one user        *)
(* message and, when its request settles, one assistant message: the       *)
(* response text on success, one failure message when the request fails or *)
(* returns a non-OK status.  While a request is in flight further calls    *)
(* are ignored, and isLoading is false again after every request.          *)
(***************************************************************************)
ChatPairsEveryRequest ==
  LET msgs == chat.messages
      open == IF chat.isLoading THEN 1 ELSE 0
  IN  /\ probe.accepted = probe.settled + open
      /\ Len(msgs) = 2 * probe.settled + open
      /\ \A i \in 1..Len(msgs) :
           msgs[i].role = IF i % 2 = 1 THEN "user" ELSE "assistant"
      /\ Cardinality(LiveRequests) = open
      /\ (probe.last # <<>> /\ ~chat.isLoading) =>
           msgs[Len(msgs)].content =
             IF probe.last.ok THEN probe.last.text ELSE ErrorText

\* a request failed after one had succeeded, and a call was ignored
ChatFailedAfterSuccess ==
  /\ probe.settled = 2
  /\ probe.ignored > 0
  /\ probe.last # <<>>
  /\ ~probe.last.ok
  /\ ~chat.isLoading
  /\ chat.messages[2].content # ErrorText
  /\ chat.messages[4].content = ErrorText

\* the plain-text length of a node's content
plainLen(forest, id) == Len(toPlain(contentOf(forest, id)))

(***************************************************************************)
(* C25: after a Backspace merge of node n into the previous node p, focus  *)
(* is on p with the caret at the old boundary, the offset equal to the     *)
(* length of p's content before the merge, and not at the end of the       *)
(* merged content.                                                         *)
(***************************************************************************)
MergeCaretAtOldBoundary ==
  (/\ Pressed("Backspace")
   /\ isAtStart(probe.off)
   /\ previousVisibleId(probe.id, nodes) # NoId)
    => /\ probe.focus = previousVisibleId(probe.id, nodes)
       /\ probe.caret = [start |-> plainLen(nodes, probe.focus),
                         end   |-> plainLen(nodes, probe.focus)]

(***************************************************************************)
(* C26: ArrowDown without Shift, with the caret collapsed at the end of    *)
(* the node at visible index i below the last index, moves focus to        *)
(* flattened[i+1] with the caret at that node's start; with the caret not  *)
(* at the end, or in the last visible node, it moves focus nowhere.        *)
(***************************************************************************)
ArrowDownEntersAtStart ==
  Pressed("ArrowDown") =>
    LET flat == IdSeq(flattenVisibleNodes(nodes))
        i    == CHOOSE i \in 1..Len(flat) : flat[i] = probe.id
    IN  IF /\ probe.off # NoSelection
           /\ probe.off.start = probe.off.end
           /\ probe.off.end = plainLen(nodes, probe.id)
           /\ i < Len(flat)
        THEN /\ probe.focus = flat[i + 1]
             /\ probe.caret = [start |-> 0, end |-> 0]
             /\ probe.result = nodes
        ELSE /\ probe.focus = NoId
             /\ probe.result = nodes

(***************************************************************************)
(* C27: in every reachable state the node the editor has placed focus on   *)
(* (the active node, target of the last focusNode call) is a member of the *)
(* flattened visible list: no sequence of Tab, Shift+Tab, Enter, Backspace *)
(* and collapse toggles leaves it hidden under a collapsed ancestor.       *)
(***************************************************************************)
FocusTargetIsVisible ==
  (~loading /\ activeNodeId # NoId /\ activeNodeId \in AllIds(nodes))
    => activeNodeId \in VisibleIds(nodes)

\* the position of id in the full pre-order traversal of the forest
preorderIndex(forest, id) ==
  LET all == IdSeq(flattenAll(forest))
  IN  CHOOSE j \in 1..Len(all) : all[j] = id

(***************************************************************************)
(* C28: a Backspace merge keeps the relative depth-first order of all      *)
(* remaining nodes: of two nodes other than the merged-away one, the one   *)
(* that came first in the full pre-order traversal before the merge still  *)
(* comes first after it.                                                   *)
(***************************************************************************)
MergeKeepsDocumentOrder ==
  Law("merge") =>
    \A a \in AllIds(probe.merged), b \in AllIds(probe.merged) :
      (/\ a \in AllIds(nodes)
       /\ b \in AllIds(nodes)
       /\ preorderIndex(nodes, a) < preorderIndex(nodes, b))
        => preorderIndex(probe.merged, a) < preorderIndex(probe.merged, b)

\* the ids of the whole forest in depth-first pre-order, collapse ignored
preorderIds(forest) == IdSeq(flattenAll(forest))

isLastChild(forest, id) ==
  /\ parentOf(forest, id) # NoId
  /\ indexAmongSiblings(forest, id) = Len(siblingsOf(forest, id))

(***************************************************************************)
(* C29: indentNode never changes the depth-first pre-order sequence of the *)
(* node ids of the whole forest, collapse ignored: only depths change.     *)
(* outdentNode keeps that sequence whenever the outdented node is the last *)
(* child of its parent.                                                    *)
(***************************************************************************)
IndentKeepsPreorder ==
  /\ Law("indent") => preorderIds(probe.result) = preorderIds(nodes)
  /\ (Law("outdent") /\ isLastChild(nodes, probe.id))
       => preorderIds(probe.result) = preorderIds(nodes)

\* a node with a child was indented under a previous sibling with a child
IndentedSubtreeUnderSubtree ==
  /\ Law("indent")
  /\ probe.result # nodes
  /\ childrenOf(nodes, probe.id) # <<>>
  /\ hasPreviousSibling(nodes, probe.id)
  /\ parentOf(probe.result, probe.id) # parentOf(nodes, probe.id)
  /\ Len(childrenOf(probe.result, parentOf(probe.result, probe.id))) > 1

\* the deleted forest, or part of it, is in the store again
DeletedContentIsBack ==
  /\ store[noteId].exists
  /\ AllIds(store[noteId].rootNodes) \cap probe.deletedIds # {}

(***************************************************************************)
(* C30: once the store has deleted the note, the editor's forest is one    *)
(* empty node with title, tags and notebook cleared, and no save issued    *)
(* afterwards by a debounce timer that was pending at delete time writes   *)
(* the deleted note's earlier content back to the store; when the store    *)
(* delete fails, the forest and the metadata are left as they were.        *)
(***************************************************************************)
DeleteResetsEditorForGood ==
  /\ probe.outcome = "deleted" =>
       /\ Len(nodes) = 1
       /\ nodes[1].content = <<>>
       /\ nodes[1].children = <<>>
       /\ metaFrom = NoNoteId
       /\ ~store[noteId].exists
  /\ probe.outcome = "failed" =>
       /\ nodes = probe.before.nodes
       /\ metaFrom = probe.before.metaFrom
       /\ store = probe.before.store
  /\ ~DeletedContentIsBack
====
